---- MODULE Spec2Model ----
(***************************************************************************)
(* A model of the trading-signal core of the fx repository: the learning   *)
(* feedback loop (EnhancedLearningEngine + MarketPriceService), the signal *)
(* decision engines (EnhancedAIAnalyzer, AdvancedAIAnalyzer,               *)
(* AutonomousTradingEngine, TradingEngine) and the risk ladder             *)
(* calculators.                                                            *)
(*                                                                         *)
(* Numbers.  The source computes in IEEE doubles; the model computes in    *)
(* exact integers on fixed grids:                                          *)
(*   - confidences: millionths (0.65 = 650000); a product is truncated to  *)
(*     a millionth;                                                        *)
(*   - win rates, quality scores, reliability, macd: thousandths;          *)
(*   - volatility: ten-thousandths (0.02 = 200);                           *)
(*   - bullish / bearish scores: quarters (a score of 2.5 is 10), because  *)
(*     the analysers weight sub-scores that are multiples of 0.5 by        *)
(*     multiples of 0.5;                                                   *)
(*   - prices: points of the symbol's output precision (one point is the   *)
(*     last digit kept by toFixed); the ladder arithmetic before toFixed   *)
(*     is in 1/Scale of a point and toFixed rounds it to whole points;     *)
(*   - pnlPercentage: hundredths of a percent.                             *)
(***************************************************************************)
EXTENDS Integers, Sequences, FiniteSets, TLC

(***************************************************************************)
(* Bounds of the model.                                                    *)
(***************************************************************************)
MaxTrades == 2      \* trades recorded in the history
MaxTicks == 2       \* outcome-check ticks that may be in flight at once
MaxPrice == 5       \* the price grid of the feedback loop is 1..MaxPrice

VARIABLES
    tradeHistory,   \* EnhancedLearningEngine.tradeHistory: Seq of TradeOutcome
    metrics,        \* EnhancedLearningEngine.metrics
    priceCache,     \* MarketPriceService.priceCache: symbol -> price, 0 = no entry
    tick,           \* the in-flight checkTradeOutcomes invocations
    extSaving,      \* updateTradeOutcome calls from outside, suspended in their await
    tickResolves    \* history: how often ticks called updateTradeOutcome per signalId

learnVars == <<tradeHistory, metrics, priceCache, tick, extSaving, tickResolves>>

VARIABLES
    ladderIn,       \* the arguments of a ladder calculator
    ladderOut       \* the ladder it returned

ladderVars == <<ladderIn, ladderOut>>

VARIABLES
    decideIn,       \* the evidence a decision engine is handed
    decideOut       \* what it decided

decideVars == <<decideIn, decideOut>>

VARIABLES
    signals,        \* AutonomousTradingEngine.signals, newest first
    brainData,      \* AutonomousTradingEngine.brainData: symbol -> confidence_level
    store,          \* the trading_signals rows written by saveSignal, newest first
    lastAnalysis,   \* what the last analyzeSymbolWithLearning computed and returned
    learningRules,  \* the learningRules of the learning engine
    linkedEngine    \* the class the analyzer's import of './learningEngine' resolves to

emitVars == <<signals, store, brainData, lastAnalysis, learningRules, linkedEngine>>

VARIABLES
    engineSignals,        \* TradingEngine.signals, newest first
    learningData,         \* TradingEngine.learningData
    isGeneratingSignals,  \* TradingEngine.isGeneratingSignals
    timers                \* pending setTimeout callbacks of generatePeriodicSignals

engineVars == <<engineSignals, learningData, isGeneratingSignals, timers>>

VARIABLES
    initPc,              \* where initializeAutonomousMonitoring stands
    isMonitoring,        \* AutonomousTradingEngine.isMonitoring
    monitoringInterval,  \* AutonomousTradingEngine.monitoringInterval is set
    cycles,              \* the performMonitoringCycle invocations, oldest first
    stopRequested        \* history: stopMonitoring has been called

monitorVars == <<initPc, isMonitoring, monitoringInterval, cycles, stopRequested>>

VARIABLES
    supabaseConfigured,  \* supabaseClient: the client `supabase` is not null
    localSignals,        \* localStorage 'trading_signals', newest first
    lastSaved,           \* history: the row of the last saveSignal call
    readBack             \* history: what the last getRecentSignals returned

storeVars == <<supabaseConfigured, localSignals, lastSaved, readBack>>

VARIABLES
    applyIn,   \* the engine state and the arguments a learning function is called with
    applyOut   \* what it returned

applyVars == <<applyIn, applyOut>>

VARIABLES
    analyses,  \* the analyzeSource calls of the older engine that wait for saveBrainData
    loading,   \* the loadLearningData call of the constructor has not returned
    emitted    \* history: the signals put on a signal list since the initial state

pendingVars == <<analyses, loading, emitted>>
laterVars == <<monitorVars, storeVars, applyVars, pendingVars>>
vars == <<learnVars, ladderVars, decideVars, emitVars, engineVars, laterVars>>

\* what the actions of one component leave alone
notLearn == <<ladderVars, decideVars, emitVars, engineVars, laterVars>>
notLadder == <<learnVars, decideVars, emitVars, engineVars, laterVars>>
notDecide == <<learnVars, ladderVars, emitVars, engineVars, laterVars>>

Symbols == {"XAUUSD", "EURUSD"}
Prices == 1..MaxPrice
NoPrice == 0
Ticks == 1..MaxTicks
Terminal == {"WIN", "PARTIAL", "LOSS"}

(***************************************************************************)
(* Helpers on numbers and sequences.                                       *)
(***************************************************************************)
Min(a, b) == IF a <= b THEN a ELSE b
Max(a, b) == IF a >= b THEN a ELSE b
Abs(a) == IF a >= 0 THEN a ELSE 0 - a

(***************************************************************************)
(* Risk ladders.  Prices are in points; the arithmetic before toFixed is   *)
(* done in 1/Scale of a point, which holds every factor of the source      *)
(* exactly (0.02, 0.015, 0.999, 1.001, 1.8, 3.5, 0.75, ...).               *)
(***************************************************************************)
Scale == 10000

\* Number(x.toFixed(decimals)) for x >= 0: the nearest point
toFixed(x) == (x + Scale \div 2) \div Scale

NoLadder ==
    [calc |-> "none", signal |-> "HOLD", entryPrice |-> 0, stopLoss |-> 0,
     takeProfit1 |-> 0, takeProfit2 |-> 0, takeProfit3 |-> 0]

\* the ladder a calculator returns, from its unrounded levels
RoundedLadder(calc, signal, entry, stop, tp1, tp2, tp3) ==
    [calc |-> calc, signal |-> signal, entryPrice |-> toFixed(entry),
     stopLoss |-> toFixed(stop), takeProfit1 |-> toFixed(tp1),
     takeProfit2 |-> toFixed(tp2), takeProfit3 |-> toFixed(tp3)]

\* AutonomousTradingEngine.createEnhancedTradingSignal: 2% risk, the stop
\* pulled to support * 0.999 (resistance * 1.001), targets at 1.8 / 3.0 / 4.5
\* times the 2% risk.
createEnhancedTradingSignal(signalType, currentPrice, support, resistance) ==
    LET entryPrice == currentPrice * Scale
        riskAmount == currentPrice * 200
        stopLoss == IF signalType = "BUY"
                    THEN Max(entryPrice - riskAmount, support * 9990)
                    ELSE Min(entryPrice + riskAmount, resistance * 10010)
        dir == IF signalType = "BUY" THEN 1 ELSE -1
    IN RoundedLadder("createEnhancedTradingSignal", signalType, entryPrice, stopLoss,
                     entryPrice + dir * ((riskAmount * 18) \div 10),
                     entryPrice + dir * (riskAmount * 3),
                     entryPrice + dir * ((riskAmount * 45) \div 10))

\* AdvancedAIAnalyzer.calculatePreciseRiskLevels: the same stop, targets at
\* 2 / 3 / 4 times the distance between entry and stop.
calculatePreciseRiskLevels(signal, currentPrice, support, resistance) ==
    LET entryPrice == currentPrice * Scale
        riskAmount == currentPrice * 200
        stopLoss == IF signal = "BUY"
                    THEN Max(entryPrice - riskAmount, support * 9990)
                    ELSE Min(entryPrice + riskAmount, resistance * 10010)
        riskDistance == IF signal = "BUY" THEN entryPrice - stopLoss
                        ELSE stopLoss - entryPrice
        dir == IF signal = "BUY" THEN 1 ELSE -1
    IN IF signal = "HOLD"
       THEN RoundedLadder("calculatePreciseRiskLevels", signal, entryPrice,
                          entryPrice, entryPrice, entryPrice, entryPrice)
       ELSE RoundedLadder("calculatePreciseRiskLevels", signal, entryPrice, stopLoss,
                          entryPrice + dir * (riskDistance * 2),
                          entryPrice + dir * (riskDistance * 3),
                          entryPrice + dir * (riskDistance * 4))

\* The ladder of AutonomousTradingEngine.createPreNewsSignal: 1.5% risk, the
\* stop pulled to the raw support (resistance), targets at 2.0 / 3.5 / 5.0.
PreNewsLadder(signalType, currentPrice, support, resistance) ==
    LET entryPrice == currentPrice * Scale
        riskAmount == currentPrice * 150
        stopLoss == IF signalType = "BUY"
                    THEN Max(entryPrice - riskAmount, support * Scale)
                    ELSE Min(entryPrice + riskAmount, resistance * Scale)
        dir == IF signalType = "BUY" THEN 1 ELSE -1
    IN RoundedLadder("createPreNewsSignal", signalType, entryPrice, stopLoss,
                     entryPrice + dir * (riskAmount * 2),
                     entryPrice + dir * ((riskAmount * 35) \div 10),
                     entryPrice + dir * (riskAmount * 5))

\* AutonomousTradingEngine.createTradingSignal of the older engine
\* (part_007): 2% risk, the stop pulled to the raw support (resistance),
\* targets at 1.5 / 2.5 / 4.0 times the 2% risk.
createTradingSignal(signalType, currentPrice, support, resistance) ==
    LET entryPrice == currentPrice * Scale
        riskAmount == currentPrice * 200
        stopLoss == IF signalType = "BUY"
                    THEN Max(entryPrice - riskAmount, support * Scale)
                    ELSE Min(entryPrice + riskAmount, resistance * Scale)
        dir == IF signalType = "BUY" THEN 1 ELSE -1
    IN RoundedLadder("createTradingSignal", signalType, entryPrice, stopLoss,
                     entryPrice + dir * ((riskAmount * 15) \div 10),
                     entryPrice + dir * ((riskAmount * 25) \div 10),
                     entryPrice + dir * (riskAmount * 4))

\* TradingEngine.calculateStopLoss and calculateTakeProfit (part_010).  The
\* engine does not round its levels; they are exact in hundredths of a
\* point, in which the levels of this ladder are given.
Hundredth == 100

calculateStopLoss(entryPrice, signal, support, resistance) ==
    LET riskAmount == entryPrice * 2 IN
    IF signal = "BUY"
    THEN Max(entryPrice * Hundredth - riskAmount, support * Hundredth)
    ELSE Min(entryPrice * Hundredth + riskAmount, resistance * Hundredth)

calculateTakeProfit(entryPrice, signal, level) ==
    LET baseRisk == entryPrice * 2
        dir == IF signal = "BUY" THEN 1 ELSE -1
    IN entryPrice * Hundredth
          + dir * (IF level = 1 THEN (baseRisk * 15) \div 10
                   ELSE IF level = 2 THEN (baseRisk * 25) \div 10
                   ELSE IF level = 3 THEN baseRisk * 4
                   ELSE baseRisk)

\* TradingEngine.generateTradingSignalFromData: the ladder of the new signal
generateTradingSignalFromData(signal, currentPrice, support, resistance) ==
    [calc |-> "generateTradingSignalFromData", signal |-> signal,
     entryPrice |-> currentPrice * Hundredth,
     stopLoss |-> calculateStopLoss(currentPrice, signal, support, resistance),
     takeProfit1 |-> calculateTakeProfit(currentPrice, signal, 1),
     takeProfit2 |-> calculateTakeProfit(currentPrice, signal, 2),
     takeProfit3 |-> calculateTakeProfit(currentPrice, signal, 3)]

\* The arguments the calculators are applied to: prices of the size of the
\* EURUSD quote in points, support and resistance around them on both sides.
LadderPrices == {10000, 10530, 10550}
LevelOffsets == {-300, -100, -10, 0, 10, 20, 100, 300}
LadderInputs ==
    [signal : {"BUY", "SELL"}, currentPrice : LadderPrices,
     supportOffset : LevelOffsets, resistanceOffset : LevelOffsets]

(***************************************************************************)
(* MarketPriceService                                                      *)
(***************************************************************************)
\* getCurrentPrice: priceCache.get(symbol) || null
getCurrentPrice(cache, symbol) == cache[symbol]

\* checkTPSLLevels(signal): the direction is read from the field `signal`.
\* A TradingSignal has it; a TradeOutcome carries `signalType` instead, so
\* for a TradeOutcome `signal.signal` is undefined and the else branch runs.
HasBuySignalField(signal) ==
    "signal" \in DOMAIN signal /\ signal["signal"] = "BUY"

checkTPSLLevels(cache, signal) ==
    LET price == getCurrentPrice(cache, signal.symbol) IN
    IF price = NoPrice
    THEN [tp1Hit |-> FALSE, tp2Hit |-> FALSE, tp3Hit |-> FALSE,
          stopLossHit |-> FALSE, currentPrice |-> signal.entryPrice]
    ELSE IF HasBuySignalField(signal)
    THEN [tp1Hit |-> price >= signal.takeProfit1,
          tp2Hit |-> price >= signal.takeProfit2,
          tp3Hit |-> price >= signal.takeProfit3,
          stopLossHit |-> price <= signal.stopLoss,
          currentPrice |-> price]
    ELSE [tp1Hit |-> price <= signal.takeProfit1,
          tp2Hit |-> price <= signal.takeProfit2,
          tp3Hit |-> price <= signal.takeProfit3,
          stopLossHit |-> price >= signal.stopLoss,
          currentPrice |-> price]

(***************************************************************************)
(* EnhancedLearningEngine                                                  *)
(***************************************************************************)
\* The market conditions a trade is recorded with (the fields generateLessons
\* reads).
CalmConditions ==
    [volatility |-> 200, tradingViewSentiment |-> "NEUTRAL",
     dxyImpact |-> "NEUTRAL", newsImpact |-> "LOW", riskLevel |-> "LOW"]
RoughConditions ==
    [volatility |-> 450, tradingViewSentiment |-> "BULLISH",
     dxyImpact |-> "POSITIVE", newsImpact |-> "HIGH", riskLevel |-> "HIGH"]

\* The ladders trades are recorded with: ordered for their direction, on the
\* price grid, with the stop and tp3 at the ends of the grid.
BuyLadder ==
    [symbol |-> "XAUUSD", signalType |-> "BUY", stopLoss |-> 1, entryPrice |-> 2,
     takeProfit1 |-> 3, takeProfit2 |-> 4, takeProfit3 |-> 5,
     confidence |-> 650000, reasoningFactors |-> <<>>,
     marketConditions |-> RoughConditions]
SellLadder ==
    [symbol |-> "EURUSD", signalType |-> "SELL", stopLoss |-> 5, entryPrice |-> 4,
     takeProfit1 |-> 3, takeProfit2 |-> 2, takeProfit3 |-> 1,
     confidence |-> 800000, reasoningFactors |-> <<>>,
     marketConditions |-> CalmConditions]
TradeInputs == {BuyLadder, SellLadder}
\* the exit prices outside callers pass to updateTradeOutcome
CallPrices == {MaxPrice}

\* recordTrade's new TradeOutcome (tpLevelsHit, stopLossHit and winRate are
\* written once here and never again; they are left out).
NewTrade(signalId, symbol, in) ==
    [signalId |-> signalId, symbol |-> symbol, signalType |-> in.signalType,
     entryPrice |-> in.entryPrice, currentPrice |-> in.entryPrice,
     stopLoss |-> in.stopLoss, takeProfit1 |-> in.takeProfit1,
     takeProfit2 |-> in.takeProfit2, takeProfit3 |-> in.takeProfit3,
     confidence |-> in.confidence, outcome |-> "PENDING",
     pnl |-> 0, pnlPercentage |-> 0,
     reasoningFactors |-> in.reasoningFactors,
     marketConditions |-> in.marketConditions, lessonsLearned |-> <<>>]

\* An outcome check that never reports a level as hit.
UncheckedOutcome(tpslStatus) == "PENDING"

\* determineWinOutcome
determineWinOutcome(tpslStatus) ==
    IF tpslStatus.tp3Hit THEN "WIN"
    ELSE IF tpslStatus.tp2Hit THEN "WIN"
    ELSE IF tpslStatus.tp1Hit THEN "PARTIAL"
    ELSE "WIN"

\* The branch checkTradeOutcomes takes for one trade: the outcome it passes to
\* updateTradeOutcome, or "PENDING" when it calls nothing.
CheckedOutcome(tpslStatus) ==
    IF tpslStatus.stopLossHit THEN "LOSS"
    ELSE IF tpslStatus.tp1Hit \/ tpslStatus.tp2Hit \/ tpslStatus.tp3Hit
    THEN determineWinOutcome(tpslStatus)
    ELSE "PENDING"

\* generateLessons
generateLessons(trade) ==
    IF trade.outcome \in {"WIN", "PARTIAL"}
    THEN <<"signals work well">>
         \o (IF trade.marketConditions.volatility > 300
             THEN <<"High volatility conditions favor this setup">> ELSE <<>>)
         \o (IF trade.marketConditions.tradingViewSentiment = trade.signalType
             THEN <<"TradingView sentiment alignment">> ELSE <<>>)
         \o (IF trade.marketConditions.dxyImpact = "POSITIVE"
             THEN <<"Positive DXY correlation">> ELSE <<>>)
    ELSE IF trade.outcome = "LOSS"
    THEN <<"signals need refinement">>
         \o (IF trade.marketConditions.newsImpact = "HIGH"
             THEN <<"Avoid trading during high impact news events">> ELSE <<>>)
         \o (IF trade.marketConditions.riskLevel = "HIGH"
             THEN <<"High risk market conditions">> ELSE <<>>)
         \o (IF trade.confidence < 700000
             THEN <<"Low confidence signals should be avoided">> ELSE <<>>)
    ELSE <<>>

\* trade.pnlPercentage = (trade.pnl / trade.entryPrice) * 100, in hundredths
\* of a percent
PnlPercentage(pnl, entryPrice) == (pnl * 10000) \div entryPrice

\* The assignments of updateTradeOutcome to the trade it found.
ResolvedTrade(trade, outcome, currentPrice) ==
    LET pnl == IF trade.signalType = "BUY" THEN currentPrice - trade.entryPrice
               ELSE IF trade.signalType = "SELL" THEN trade.entryPrice - currentPrice
               ELSE trade.pnl
        t1 == [trade EXCEPT !.outcome = outcome, !.currentPrice = currentPrice,
                            !.pnl = pnl,
                            !.pnlPercentage = PnlPercentage(pnl, trade.entryPrice)]
    IN [t1 EXCEPT !.lessonsLearned = generateLessons(t1)]

\* this.tradeHistory.find(t => t.signalId === signalId): its index, 0 if none
FindTrade(history, signalId) ==
    IF \E i \in 1..Len(history) : history[i].signalId = signalId
    THEN CHOOSE i \in 1..Len(history) :
            /\ history[i].signalId = signalId
            /\ \A j \in 1..(i - 1) : history[j].signalId # signalId
    ELSE 0

\* updateSymbolPerformance: the entry of one symbol, or "none"
SymbolPerformance(history, symbol) ==
    LET done == {i \in 1..Len(history) :
                    history[i].outcome # "PENDING" /\ history[i].symbol = symbol}
        wins == Cardinality({i \in done : history[i].outcome \in {"WIN", "PARTIAL"}})
        count == Cardinality(done)
    IN IF count = 0 THEN [present |-> FALSE, wins |-> 0, losses |-> 0, winRate |-> 0]
       ELSE [present |-> TRUE, wins |-> wins, losses |-> count - wins,
             winRate |-> (wins * 1000) \div count]

\* Whether wins1 / total1 > wins2 / total2.
HigherRate(wins1, total1, wins2, total2) == wins1 * total2 > wins2 * total1

RECURSIVE FactorKeys(_, _)
\* The keys of updateFactorPerformance's factorPerformance map in insertion
\* order: the factors of the completed trades, each at its first occurrence.
FactorKeys(history, n) ==
    IF n = 0 THEN <<>>
    ELSE LET before == FactorKeys(history, n - 1)
             factors == IF history[n].outcome # "PENDING"
                        THEN history[n].reasoningFactors ELSE <<>>
             seen(k) == {before[j] : j \in 1..Len(before)}
                        \cup {factors[j] : j \in 1..(k - 1)}
         IN before \o SelectSeq([k \in 1..Len(factors) |->
                                    IF factors[k] \in seen(k) THEN "" ELSE factors[k]],
                                LAMBDA f : f # "")

\* factorPerformance.get(factor): { wins, total }
FactorPerformance(history, factor) ==
    LET done == {i \in 1..Len(history) : history[i].outcome # "PENDING"}
        uses == UNION {{<<i, j>> : j \in {k \in 1..Len(history[i].reasoningFactors) :
                                            history[i].reasoningFactors[k] = factor}} :
                       i \in done}
    IN [wins |-> Cardinality({u \in uses : history[u[1]].outcome \in {"WIN", "PARTIAL"}}),
        total |-> Cardinality(uses)]

\* updateFactorPerformance: the factors seen at least 3 times, sorted by win
\* rate (the sort is stable), the first five and the last five of them.  The
\* two lists are only ever searched with includes, so they are kept as sets.
updateFactorPerformance(history) ==
    LET keys == FactorKeys(history, Len(history))
        sortedFactors == SelectSeq(keys,
                            LAMBDA f : FactorPerformance(history, f).total >= 3)
        n == Len(sortedFactors)
        perf(i) == FactorPerformance(history, sortedFactors[i])
        position(i) == Cardinality({j \in 1..n :
            \/ HigherRate(perf(j).wins, perf(j).total, perf(i).wins, perf(i).total)
            \/ /\ j < i
               /\ ~HigherRate(perf(i).wins, perf(i).total, perf(j).wins, perf(j).total)})
    IN [bestPerformingFactors |-> {sortedFactors[i] : i \in {k \in 1..n : position(k) < 5}},
        worstPerformingFactors |->
            {sortedFactors[i] : i \in {k \in 1..n : position(k) >= n - 5}}]

RECURSIVE SumPnl(_, _)
SumPnl(history, n) ==
    IF n = 0 THEN 0
    ELSE SumPnl(history, n - 1)
         + (IF history[n].outcome # "PENDING" THEN history[n].pnlPercentage ELSE 0)

\* metrics that count every trade of the history, pending ones included
countEveryTrade(old, history) ==
    [old EXCEPT !.totalTrades = Len(history)]

\* updateMetrics: everything is recomputed from the history, except winRate and
\* avgPnL, which keep their old value while no trade is completed.
updateMetrics(old, history) ==
    LET done == {i \in 1..Len(history) : history[i].outcome # "PENDING"}
        total == Cardinality(done)
        winning == Cardinality({i \in done : history[i].outcome \in {"WIN", "PARTIAL"}})
        losing == Cardinality({i \in done : history[i].outcome = "LOSS"})
    IN [old EXCEPT
          !.totalTrades = total,
          !.winningTrades = winning,
          !.losingTrades = losing,
          !.winRate = IF total > 0 THEN (winning * 1000) \div total ELSE old.winRate,
          !.avgPnL = IF total > 0 THEN SumPnl(history, Len(history)) \div total
                     ELSE old.avgPnL,
          !.symbolPerformance = [s \in Symbols |-> SymbolPerformance(history, s)],
          !.bestPerformingFactors = updateFactorPerformance(history).bestPerformingFactors,
          !.worstPerformingFactors =
              updateFactorPerformance(history).worstPerformingFactors]

\* generateImprovementSuggestions
generateImprovementSuggestions(m) ==
    [m EXCEPT !.improvementSuggestions =
        (IF m.winRate < 600 THEN {"increase confidence threshold"} ELSE {})
        \cup (IF m.avgPnL < 0 THEN {"review risk management"} ELSE {})
        \cup {<<"avoid", s>> : s \in {x \in Symbols :
                 /\ m.symbolPerformance[x].present
                 /\ m.symbolPerformance[x].winRate < 400
                 /\ m.symbolPerformance[x].wins + m.symbolPerformance[x].losses >= 10}}]

InitMetrics ==
    [totalTrades |-> 0, winningTrades |-> 0, losingTrades |-> 0,
     winRate |-> 0, avgPnL |-> 0,
     symbolPerformance |->
        [s \in Symbols |-> [present |-> FALSE, wins |-> 0, losses |-> 0, winRate |-> 0]],
     bestPerformingFactors |-> {}, worstPerformingFactors |-> {},
     improvementSuggestions |-> {}]

\* updateTradeOutcome up to its await: the history after it (unchanged when the
\* signalId is not found).
UpdatedHistory(history, signalId, outcome, currentPrice) ==
    LET i == FindTrade(history, signalId) IN
    IF i = 0 THEN history
    ELSE [history EXCEPT ![i] = ResolvedTrade(history[i], outcome, currentPrice)]

IdleTick == [pc |-> "idle", pending |-> <<>>, idx |-> 0]

\* The for loop of checkTradeOutcomes from position `from` of its pending list:
\* the first position whose trade makes it call updateTradeOutcome, or
\* Len(pending) + 1 when the loop runs to its end.  The loop reads the trade
\* objects it collected, as they are now.
RECURSIVE NextCall(_, _, _, _)
NextCall(history, cache, pending, from) ==
    IF from > Len(pending) THEN from
    ELSE IF CheckedOutcome(checkTPSLLevels(cache, history[pending[from]])) # "PENDING"
    THEN from
    ELSE NextCall(history, cache, pending, from + 1)

\* this.tradeHistory.filter(t => t.outcome === 'PENDING'), as positions in the
\* history (the loop keeps references to the trade objects)
RECURSIVE PendingTrades(_, _)
PendingTrades(history, n) ==
    IF n = 0 THEN <<>>
    ELSE PendingTrades(history, n - 1)
         \o (IF history[n].outcome = "PENDING" THEN <<n>> ELSE <<>>)

(***************************************************************************)
(* EnhancedLearningEngine: learning rules and their use on a new signal.   *)
(***************************************************************************)
\* addOrUpdateRule: the rules are searched by condition; an existing rule
\* keeps its action.  timesApplied and the dates, which nothing reads, are
\* left out.
addOrUpdateRule(rules, condition, action, confidence, successRate) ==
    IF \E r \in rules : r.condition = condition
    THEN {IF r.condition = condition
          THEN [r EXCEPT !.successRate = successRate, !.confidence = confidence]
          ELSE r : r \in rules}
    ELSE rules \cup {[condition |-> condition, action |-> action,
                      confidence |-> confidence, successRate |-> successRate]}

\* updateLearningRules (every 5 minutes), over the last 20 trades
updateLearningRules(rules, history) ==
    LET recentTrades == {i \in 1..Len(history) : i > Len(history) - 20}
        won(set) == Cardinality({i \in set : history[i].outcome \in {"WIN", "PARTIAL"}})
        lowConfidenceTrades == {i \in recentTrades : history[i].confidence < 700000}
        lowCount == Cardinality(lowConfidenceTrades)
        rules1 == IF lowCount >= 5 /\ won(lowConfidenceTrades) * 10 < 4 * lowCount
                  THEN addOrUpdateRule(rules, "low_confidence", "AVOID_SIGNAL", 700000,
                                       (won(lowConfidenceTrades) * 1000) \div lowCount)
                  ELSE rules
        highVolTrades == {i \in recentTrades : history[i].marketConditions.volatility > 300}
        highCount == Cardinality(highVolTrades)
    IN IF highCount >= 5 /\ won(highVolTrades) * 10 > 7 * highCount
       THEN addOrUpdateRule(rules1, "high_volatility", "PREFER_SIGNAL", 800000,
                            (won(highVolTrades) * 1000) \div highCount)
       ELSE rules1

RECURSIVE FactorAdjusted(_, _, _)
\* "Apply factor-based learning": the forEach over reasoningFactors
FactorAdjusted(m, confidence, reasoningFactors) ==
    IF reasoningFactors = <<>> THEN confidence
    ELSE LET factor == Head(reasoningFactors)
             next == IF factor \in m.bestPerformingFactors
                     THEN Min(950000, (confidence * 105) \div 100)
                     ELSE IF factor \in m.worstPerformingFactors
                     THEN (confidence * 9) \div 10
                     ELSE confidence
         IN FactorAdjusted(m, next, Tail(reasoningFactors))

\* Learning that lowers nothing and avoids only on a rule.
applyRulesOnly(m, rules, symbol, confidence, reasoningFactors) ==
    [adjustedConfidence |-> confidence,
     shouldAvoid |-> \E r \in rules : /\ r.condition = "low_confidence"
                                       /\ confidence < 700000
                                       /\ r.action = "AVOID_SIGNAL"]

\* applyLearningToSignal: the adjusted confidence and the avoid flag
applyLearningToSignal(m, rules, symbol, confidence, reasoningFactors) ==
    LET symbolPerf == m.symbolPerformance[symbol]
        count == symbolPerf.wins + symbolPerf.losses
        judged == symbolPerf.present /\ count >= 5
        high == judged /\ symbolPerf.wins * 10 > 7 * count
        low == judged /\ ~high /\ symbolPerf.wins * 10 < 4 * count
        bySymbol == IF high THEN Min(950000, (confidence * 11) \div 10)
                    ELSE IF low THEN (confidence * 8) \div 10
                    ELSE confidence
        byFactors == FactorAdjusted(m, bySymbol, reasoningFactors)
        avoidRule == \E r \in rules : /\ r.condition = "low_confidence"
                                      /\ confidence < 700000
                                      /\ r.action = "AVOID_SIGNAL"
        preferRule == \E r \in rules : /\ r.condition = "high_volatility"
                                       /\ r.action = "PREFER_SIGNAL"
        byRules == IF preferRule THEN Min(950000, (byFactors * 103) \div 100)
                   ELSE byFactors
    IN [adjustedConfidence |-> Max(300000, Min(950000, byRules)),
        shouldAvoid |-> (low /\ symbolPerf.wins * 10 < 3 * count) \/ avoidRule]

(***************************************************************************)
(* LearningEngine, the class of migration 20251001062822 with the same     *)
(* interface.  Its updateMetrics computes the symbol and factor figures    *)
(* that applyLearningToSignal reads as EnhancedLearningEngine does; its    *)
(* applyLearningToSignal has no avoid flag.                                *)
(***************************************************************************)
updateMetrics_LearningEngine(history) == updateMetrics(InitMetrics, history)

RECURSIVE FactorAdjusted_LearningEngine(_, _, _)
\* "Apply factor-based learning" of LearningEngine
FactorAdjusted_LearningEngine(m, confidence, reasoningFactors) ==
    IF reasoningFactors = <<>> THEN confidence
    ELSE LET factor == Head(reasoningFactors)
             next == IF factor \in m.bestPerformingFactors
                     THEN Min(950000, (confidence * 105) \div 100)
                     ELSE IF factor \in m.worstPerformingFactors
                     THEN (confidence * 95) \div 100
                     ELSE confidence
         IN FactorAdjusted_LearningEngine(m, next, Tail(reasoningFactors))

RECURSIVE RuleAdjusted_LearningEngine(_, _, _)
\* "Apply learning rules" of LearningEngine: a rule applies when a factor
\* contains its condition; no fixed factor text contains another, so that
\* is when the condition is one of the factors
RuleAdjusted_LearningEngine(rules, confidence, reasoningFactors) ==
    IF rules = {} THEN confidence
    ELSE LET rule == CHOOSE r \in rules : TRUE
             applies == \E i \in 1..Len(reasoningFactors) :
                            reasoningFactors[i] = rule.condition
             next == IF applies /\ rule.successRate > 700
                        /\ rule.action = "INCREASE_CONFIDENCE"
                     THEN Min(950000, (confidence * 103) \div 100)
                     ELSE IF applies /\ rule.successRate < 400
                             /\ rule.action = "DECREASE_CONFIDENCE"
                     THEN (confidence * 97) \div 100
                     ELSE confidence
         IN RuleAdjusted_LearningEngine(rules \ {rule}, next, reasoningFactors)

\* LearningEngine.applyLearningToSignal; shouldAvoid is the field the result
\* does not have
applyLearningToSignal_LearningEngine(m, rules, symbol, confidence, reasoningFactors) ==
    LET symbolPerf == m.symbolPerformance[symbol]
        count == symbolPerf.wins + symbolPerf.losses
        bySymbol == IF symbolPerf.present /\ symbolPerf.wins * 10 > 7 * count
                    THEN Min(950000, (confidence * 11) \div 10)
                    ELSE IF symbolPerf.present /\ symbolPerf.wins * 10 < 4 * count
                    THEN (confidence * 9) \div 10
                    ELSE confidence
        byFactors == FactorAdjusted_LearningEngine(m, bySymbol, reasoningFactors)
        byRules == RuleAdjusted_LearningEngine(rules, byFactors, reasoningFactors)
    IN [adjustedConfidence |-> Max(300000, Min(950000, byRules)),
        shouldAvoid |-> FALSE]

\* LearningEngine.generateLessons: it has branches for WIN and for LOSS.  The
\* market conditions the analyzer records have no field `trend`, and
\* undefined !== signalType holds.
generateLessons_LearningEngine(trade) ==
    IF trade.outcome = "WIN"
    THEN <<"signals work well">>
         \o (IF trade.marketConditions.volatility > 300
             THEN <<"High volatility conditions favor this setup">> ELSE <<>>)
         \o (IF trade.marketConditions.tradingViewSentiment = trade.signalType
             THEN <<"TradingView sentiment alignment">> ELSE <<>>)
    ELSE IF trade.outcome = "LOSS"
    THEN <<"signals need refinement">>
         \o (IF trade.marketConditions.newsImpact = "HIGH"
             THEN <<"Avoid trading during high impact news events">> ELSE <<>>)
         \o (IF "trend" \in DOMAIN trade.marketConditions
                /\ trade.marketConditions["trend"] = trade.signalType
             THEN <<>> ELSE <<"Avoid trading against the overall trend">>)
    ELSE <<>>

\* The assignments of LearningEngine.updateTradeOutcome to the trade it
\* found; exitPrice is kept in the field currentPrice.
ResolvedTrade_LearningEngine(trade, outcome, exitPrice) ==
    LET pnl == IF trade.signalType = "BUY" THEN exitPrice - trade.entryPrice
               ELSE IF trade.signalType = "SELL" THEN trade.entryPrice - exitPrice
               ELSE trade.pnl
        t1 == [trade EXCEPT !.outcome = outcome, !.currentPrice = exitPrice,
                            !.pnl = pnl,
                            !.pnlPercentage = IF pnl # 0
                                              THEN PnlPercentage(pnl, trade.entryPrice)
                                              ELSE 0]
    IN [t1 EXCEPT !.lessonsLearned = generateLessons_LearningEngine(t1)]

RECURSIVE RulesAfterFactors(_, _, _)
\* The forEach of LearningEngine.updateLearningRules over the factors of one
\* trade.  A rule is found when its condition includes the factor; no fixed
\* factor text contains another, so that is the rule of that factor.  The
\* running mean successRate is successes / timesApplied; it is kept in
\* thousandths, next to its numerator.
RulesAfterFactors(rules, trade, factors) ==
    IF factors = <<>> THEN rules
    ELSE LET factor == Head(factors)
             won == IF trade.outcome = "WIN" THEN 1 ELSE 0
             counted(r) ==
                [r EXCEPT !.timesApplied = @ + 1, !.successes = @ + won,
                          !.successRate = ((r.successes + won) * 1000)
                                              \div (r.timesApplied + 1)]
             next == IF \E r \in rules : r.condition = factor
                     THEN {IF r.condition = factor THEN counted(r) ELSE r : r \in rules}
                     ELSE rules \cup
                          {[condition |-> factor,
                            action |-> IF won = 1 THEN "INCREASE_CONFIDENCE"
                                       ELSE "DECREASE_CONFIDENCE",
                            confidence |-> trade.confidence, successes |-> won,
                            successRate |-> won * 1000, timesApplied |-> 1]}
         IN RulesAfterFactors(next, trade, Tail(factors))

\* LearningEngine.updateLearningRules(trade): the forEach, then the filter
\* rule.successRate > 0.2 || rule.timesApplied < 5
updateLearningRules_LearningEngine(rules, trade) ==
    {r \in RulesAfterFactors(rules, trade, trade.reasoningFactors) :
        r.successes * 10 > 2 * r.timesApplied \/ r.timesApplied < 5}

\* the rules LearningEngine finds in localStorage
StoredRules ==
    {{}, {[condition |-> "Positive news sentiment", action |-> "INCREASE_CONFIDENCE",
           confidence |-> 950000, successRate |-> 1000],
          [condition |-> "Strong bullish consensus across multiple sources",
           action |-> "DECREASE_CONFIDENCE", confidence |-> 950000,
           successRate |-> 250]}}

\* loadLearningData: a trade as it is rebuilt from one ai_learning_data row
\* (no prices, no reasoning factors)
LoadedTrade(signalId, row) ==
    [signalId |-> signalId, symbol |-> row.symbol, signalType |-> row.prediction,
     entryPrice |-> 0, currentPrice |-> 0, stopLoss |-> 0, takeProfit1 |-> 0,
     takeProfit2 |-> 0, takeProfit3 |-> 0, confidence |-> row.confidence,
     outcome |-> row.actual_outcome, pnl |-> row.pnl_percentage,
     pnlPercentage |-> row.pnl_percentage, reasoningFactors |-> <<>>,
     marketConditions |-> row.market_conditions,
     lessonsLearned |-> row.lessons_learned]

\* ai_learning_data rows as saveLearningData writes them: a lost SELL on
\* EURUSD and a won BUY on XAUUSD
LostRow ==
    [symbol |-> "EURUSD", prediction |-> "SELL", actual_outcome |-> "LOSS",
     confidence |-> 680000, pnl_percentage |-> -100,
     market_conditions |-> CalmConditions,
     lessons_learned |-> <<"signals need refinement",
                           "Low confidence signals should be avoided">>]
WonRow ==
    [symbol |-> "XAUUSD", prediction |-> "BUY", actual_outcome |-> "WIN",
     confidence |-> 800000, pnl_percentage |-> 200,
     market_conditions |-> RoughConditions,
     lessons_learned |-> <<"signals work well",
                           "High volatility conditions favor this setup">>]

\* the table the engine finds when it is constructed: empty, five lost
\* trades of one symbol, five won trades of the other
StoredRows ==
    {<<>>,
     [i \in 1..5 |-> LostRow],
     [i \in 1..5 |-> WonRow]}

\* loadLearningData: the history rebuilt from the rows
loadLearningData(rows) == [i \in 1..Len(rows) |-> LoadedTrade(i, rows[i])]

(***************************************************************************)
(* The components at rest: each specification below runs one component and *)
(* leaves the others in these states.                                      *)
(***************************************************************************)
LearnIdle ==
    /\ tradeHistory = <<>>
    /\ metrics = InitMetrics
    /\ priceCache = [s \in Symbols |-> NoPrice]
    /\ tick = [k \in Ticks |-> IdleTick]
    /\ extSaving = 0
    /\ tickResolves = <<>>

LadderIdle ==
    /\ ladderIn = [signal |-> "HOLD", currentPrice |-> 0,
                   supportOffset |-> 0, resistanceOffset |-> 0]
    /\ ladderOut = NoLadder

\* no decision taken yet
NoDecision ==
    [engine |-> "none", bullishScore |-> 0, bearishScore |-> 0,
     minimumScoreDifference |-> 0, scoreDifference |-> 0, qualityScore |-> 0,
     direction |-> "HOLD", marketTrend |-> "SIDEWAYS", riskLevel |-> "NONE",
     signal |-> "HOLD", confidence |-> 0]

DecideIdle ==
    /\ decideIn = [kind |-> "none"]
    /\ decideOut = NoDecision

\* no analysis run yet
NoAnalysis ==
    [ran |-> FALSE, symbol |-> "none", signal |-> "HOLD", qualityScore |-> 0,
     confidence |-> 0, adjustedConfidence |-> 0, shouldAvoid |-> FALSE,
     returned |-> FALSE, recorded |-> FALSE]

\* brainData.get(symbol) finds nothing
NoBrain == 0

EmitIdle ==
    /\ signals = <<>>
    /\ store = <<>>
    /\ brainData = [s \in Symbols |-> NoBrain]
    /\ lastAnalysis = NoAnalysis
    /\ learningRules = {}
    /\ linkedEngine = "none"

EngineIdle ==
    /\ engineSignals = <<>>
    /\ learningData = <<>>
    /\ isGeneratingSignals = FALSE
    /\ timers = 0

\* no rows: what an empty table and an absent localStorage key read as
NoRow ==
    [symbol |-> "none", signal_type |-> "HOLD", confidence |-> 0,
     trend |-> "SIDEWAYS", source |-> "none"]

MonitorIdle ==
    /\ initPc = "none"
    /\ isMonitoring = TRUE
    /\ monitoringInterval = FALSE
    /\ cycles = <<>>
    /\ stopRequested = FALSE

StoreIdle ==
    /\ supabaseConfigured = FALSE
    /\ localSignals = <<>>
    /\ lastSaved = NoRow
    /\ readBack = [done |-> FALSE, rows |-> <<>>]

\* no learning function called on drawn arguments
NoCall == [call |-> "none"]
ApplyIdle == applyIn = NoCall /\ applyOut = NoCall
PendingIdle == analyses = <<>> /\ loading = FALSE /\ emitted = 0

LaterIdle == MonitorIdle /\ StoreIdle /\ ApplyIdle /\ PendingIdle

(***************************************************************************)
(* The learning feedback loop as a state machine.                          *)
(***************************************************************************)
LearnInit ==
    /\ tradeHistory = <<>>
    /\ metrics = InitMetrics
    /\ priceCache = [s \in Symbols |-> NoPrice]
    /\ tick = [k \in Ticks |-> IdleTick]
    /\ extSaving = 0
    /\ tickResolves = <<>>

\* recordTrade, called with a fresh signal id.  Its await of saveLearningData
\* touches no state of the engine afterwards.
RecordTrade(symbol, in) ==
    /\ Len(tradeHistory) < MaxTrades
    /\ tradeHistory' = Append(tradeHistory, NewTrade(Len(tradeHistory) + 1, symbol, in))
    /\ tickResolves' = Append(tickResolves, 0)
    /\ UNCHANGED <<metrics, priceCache, tick, extSaving, notLearn>>

\* MarketPriceService.updatePrice: a new price enters the cache.  While the
\* cache holds no price of the symbol, line 387 reads the identifier
\* basePrice, which the file never declares: the call then stores a price
\* only if the host page resolves that name, and otherwise throws before it
\* touches the cache.  A call that throws changes nothing, so the action is
\* the call that stores; no fairness is assumed for it.
UpdatePrice(symbol, price) ==
    /\ priceCache[symbol] # price
    /\ priceCache' = [priceCache EXCEPT ![symbol] = price]
    /\ UNCHANGED <<tradeHistory, metrics, tick, extSaving, tickResolves, notLearn>>

\* One synchronous stretch of checkTradeOutcomes for tick k, from position
\* `from` of its pending list: it runs to the next trade for which it calls
\* updateTradeOutcome, performs that call up to its await, and is suspended
\* there; or it runs to the end of the list and the tick is over.
RunTick(k, pending, from) ==
    LET at == NextCall(tradeHistory, priceCache, pending, from) IN
    IF at > Len(pending)
    THEN /\ tick' = [tick EXCEPT ![k] = IdleTick]
         /\ UNCHANGED <<tradeHistory, metrics, tickResolves>>
    ELSE LET trade == tradeHistory[pending[at]]
             status == checkTPSLLevels(priceCache, trade)
             history2 == UpdatedHistory(tradeHistory, trade.signalId,
                                        CheckedOutcome(status), status.currentPrice)
         IN /\ tradeHistory' = history2
            /\ metrics' = updateMetrics(metrics, history2)
            /\ tickResolves' = [tickResolves EXCEPT ![pending[at]] = @ + 1]
            /\ tick' = [tick EXCEPT ![k] = [pc |-> "saving", pending |-> pending, idx |-> at]]

\* The 30 s interval fires: a new checkTradeOutcomes starts, whether or not
\* an earlier one is still suspended.
TickStart(k) ==
    /\ tick[k].pc = "idle"
    /\ RunTick(k, PendingTrades(tradeHistory, Len(tradeHistory)), 1)
    /\ UNCHANGED <<priceCache, extSaving, notLearn>>

\* saveLearningData has returned: updateTradeOutcome ends with
\* generateImprovementSuggestions and the loop goes on with the next trade.
\* Both are one synchronous stretch, so the suggestions are those of the
\* metrics as that stretch leaves them.
TickResume(k) ==
    /\ tick[k].pc = "saving"
    /\ LET at == NextCall(tradeHistory, priceCache, tick[k].pending, tick[k].idx + 1) IN
       IF at > Len(tick[k].pending)
       THEN /\ tick' = [tick EXCEPT ![k] = IdleTick]
            /\ metrics' = generateImprovementSuggestions(metrics)
            /\ UNCHANGED <<tradeHistory, tickResolves>>
       ELSE LET trade == tradeHistory[tick[k].pending[at]]
                status == checkTPSLLevels(priceCache, trade)
                history2 == UpdatedHistory(tradeHistory, trade.signalId,
                                           CheckedOutcome(status), status.currentPrice)
            IN /\ tradeHistory' = history2
               /\ metrics' = updateMetrics(generateImprovementSuggestions(metrics), history2)
               /\ tickResolves' = [tickResolves EXCEPT ![tick[k].pending[at]] = @ + 1]
               /\ tick' = [tick EXCEPT ![k] = [@ EXCEPT !.idx = at]]
    /\ UNCHANGED <<priceCache, extSaving, notLearn>>

\* updateTradeOutcome called from outside the loop (it is a public method),
\* up to its await.
UpdateTradeOutcomeCall(signalId, outcome, currentPrice) ==
    /\ extSaving = 0
    /\ LET history2 == UpdatedHistory(tradeHistory, signalId, outcome, currentPrice) IN
       /\ tradeHistory' = history2
       /\ IF FindTrade(tradeHistory, signalId) = 0
          THEN UNCHANGED <<metrics, extSaving>>
          ELSE /\ metrics' = updateMetrics(metrics, history2)
               /\ extSaving' = 1
    /\ UNCHANGED <<priceCache, tick, tickResolves, notLearn>>

\* ... and its continuation after the await.
UpdateTradeOutcomeReturn ==
    /\ extSaving = 1
    /\ extSaving' = 0
    /\ metrics' = generateImprovementSuggestions(metrics)
    /\ UNCHANGED <<tradeHistory, priceCache, tick, tickResolves, notLearn>>

LearnNext ==
    \/ \E in \in TradeInputs : RecordTrade(in.symbol, in)
    \/ \E symbol \in Symbols, price \in Prices : UpdatePrice(symbol, price)
    \/ \E k \in Ticks : TickStart(k)
    \/ \E k \in Ticks : TickResume(k)
    \/ \E signalId \in 1..MaxTrades, outcome \in Terminal, price \in CallPrices :
          UpdateTradeOutcomeCall(signalId, outcome, price)
    \/ UpdateTradeOutcomeReturn

InitLearn == LearnInit /\ LadderIdle /\ DecideIdle /\ EmitIdle /\ EngineIdle /\ LaterIdle

SpecLearn == InitLearn /\ [][LearnNext]_vars

(***************************************************************************)
(* Properties of the learning feedback loop.                               *)
(***************************************************************************)
\* The fields of a trade record that a terminal outcome is meant to freeze.
C1_Frozen(trade) ==
    <<trade.outcome, trade.currentPrice, trade.pnl, trade.pnlPercentage,
      trade.lessonsLearned>>

\* C1: once a trade record's outcome is WIN, PARTIAL or LOSS, no step (an
\* outcome-check tick or a further updateTradeOutcome call) changes its
\* outcome, currentPrice, pnl, pnlPercentage or lessonsLearned.
C1_TerminalIsFinal ==
    [][\A i \in 1..Len(tradeHistory) :
          tradeHistory[i].outcome \in Terminal
          => C1_Frozen(tradeHistory'[i]) = C1_Frozen(tradeHistory[i])]_vars

\* C2: no trade is resolved twice by the outcome-check ticks, also when the
\* ticks overlap: over its whole life a trade receives at most one
\* updateTradeOutcome call from checkTradeOutcomes.
C2_NoDoubleResolve ==
    \A i \in 1..Len(tickResolves) : tickResolves[i] <= 1

\* The outcome rule as the specification words it, judged by the trade's own
\* direction.
C3_RuleOutcome(trade, price) ==
    IF trade.signalType = "BUY"
    THEN IF price <= trade.stopLoss THEN "LOSS"
         ELSE IF price >= trade.takeProfit3 THEN "WIN"
         ELSE IF price >= trade.takeProfit1 THEN "PARTIAL"
         ELSE "PENDING"
    ELSE IF price >= trade.stopLoss THEN "LOSS"
         ELSE IF price <= trade.takeProfit3 THEN "WIN"
         ELSE IF price <= trade.takeProfit1 THEN "PARTIAL"
         ELSE "PENDING"

\* C3: when an outcome-check tick resolves a PENDING trade at an observed
\* price, the outcome it sets is the one the rule gives for the trade's own
\* direction (LOSS on the stop, WIN on tp3, PARTIAL on tp1 or tp2 without
\* tp3), and it resolves nothing the rule leaves PENDING.
C3_OutcomeByDirection ==
    [][\A i \in 1..Len(tradeHistory) :
          (/\ tradeHistory[i].outcome = "PENDING"
           /\ tickResolves'[i] > tickResolves[i]
           /\ priceCache[tradeHistory[i].symbol] # NoPrice)
          => tradeHistory'[i].outcome =
                C3_RuleOutcome(tradeHistory[i], priceCache[tradeHistory[i].symbol])]_vars

\* C26: a trade the outcome check resolves as LOSS has pnlPercentage <= 0
\* and one it resolves as WIN or PARTIAL has pnlPercentage >= 0, for BUY and
\* for SELL trades (the ladders of the trades are ordered for their
\* direction).
C26_PnlSignMatchesOutcome ==
    [][\A i \in 1..Len(tradeHistory) :
          tickResolves'[i] > tickResolves[i]
          => /\ tradeHistory'[i].outcome = "LOSS" => tradeHistory'[i].pnlPercentage <= 0
             /\ tradeHistory'[i].outcome \in {"WIN", "PARTIAL"}
                   => tradeHistory'[i].pnlPercentage >= 0]_vars

\* the resolved trades of the history, of one symbol
C29_Resolved(symbol) ==
    {i \in 1..Len(tradeHistory) :
        tradeHistory[i].outcome # "PENDING" /\ tradeHistory[i].symbol = symbol}

\* C29: metrics.totalTrades equals winningTrades + losingTrades and the
\* number of non-PENDING trades of the history, and for each symbol wins +
\* losses is the number of that symbol's resolved trades.
C29_MetricsConsistent ==
    /\ metrics.totalTrades = metrics.winningTrades + metrics.losingTrades
    /\ metrics.totalTrades =
          Cardinality(UNION {C29_Resolved(symbol) : symbol \in Symbols})
    /\ \A symbol \in Symbols :
          metrics.symbolPerformance[symbol].wins
             + metrics.symbolPerformance[symbol].losses
          = Cardinality(C29_Resolved(symbol))

\* an outcome check has resolved one trade while the other is pending, and
\* the metrics count the one
C29_Witness ==
    /\ Len(tradeHistory) = 2
    /\ \E i \in 1..2 : tradeHistory[i].outcome = "PENDING" /\ tickResolves[3 - i] = 1
    /\ metrics.totalTrades = 1

(***************************************************************************)
(* The feedback loop while its outcome loop keeps running.  The callers of *)
(* the engine that the source shows are recordTrade (the analyzer), the    *)
(* price service and the 30 s interval of startContinuousLearning.  The    *)
(* interval goes on firing, and an await of saveLearningData, which        *)
(* catches its own errors, settles; in the code a tick that never resumes  *)
(* holds back no later tick, here it would use up one of the MaxTicks      *)
(* ticks.  The two conditions are weak fairness of TickStart and of        *)
(* TickResume, WF_vars(A) written out as                                   *)
(* []<>~ENABLED <<A>>_vars \/ []<><<A>>_vars with the enabling condition   *)
(* and the step of each action spelled out.                                *)
(***************************************************************************)
OutcomeLoopNext ==
    \/ \E in \in TradeInputs : RecordTrade(in.symbol, in)
    \/ \E symbol \in Symbols, price \in Prices : UpdatePrice(symbol, price)
    \/ \E k \in Ticks : TickStart(k)
    \/ \E k \in Ticks : TickResume(k)

\* a tick that starts now changes the state: a tick is idle and the check
\* reports a level of some PENDING trade as hit
TickStartEnabled ==
    /\ \E k \in Ticks : tick[k].pc = "idle"
    /\ \E i \in 1..Len(tradeHistory) :
          /\ tradeHistory[i].outcome = "PENDING"
          /\ CheckedOutcome(checkTPSLLevels(priceCache, tradeHistory[i])) # "PENDING"
\* the step of such a tick: it is suspended in its first updateTradeOutcome
TickStarted == \E k \in Ticks : tick[k].pc = "idle" /\ tick'[k].pc = "saving"

TickResumeEnabled == \E k \in Ticks : tick[k].pc = "saving"
TickResumed == \E k \in Ticks : tick[k].pc = "saving" /\ tick'[k] # tick[k]

TickFairness ==
    /\ ([]<>(~TickStartEnabled) \/ []<><<TickStarted>>_vars)
    /\ ([]<>(~TickResumeEnabled) \/ []<><<TickResumed>>_vars)

SpecLearnFair == InitLearn /\ [][OutcomeLoopNext]_vars /\ TickFairness

\* The cached price of the trade's symbol is at or beyond the trade's stop or
\* its first take-profit level, in the trade's own direction.
C15_Crossed(i) ==
    /\ i <= Len(tradeHistory)
    /\ priceCache[tradeHistory[i].symbol] # NoPrice
    /\ LET trade == tradeHistory[i]
           price == priceCache[trade.symbol]
       IN IF trade.signalType = "BUY"
          THEN price <= trade.stopLoss \/ price >= trade.takeProfit1
          ELSE price >= trade.stopLoss \/ price <= trade.takeProfit1

C15_HasOutcome(i, outcomes) ==
    i <= Len(tradeHistory) /\ tradeHistory[i].outcome \in outcomes

MaxWins == 4
MaxLosses == 8

\* fixed factor texts a BUY signal of performEnhancedAnalysis carries
BullishFactors ==
    <<"Positive news sentiment", "Chart trend: BULLISH",
      "Strong bullish consensus across multiple sources">>

\* The history of an engine whose outcome check has resolved `wins` trades as
\* WIN and then `losses` trades as LOSS, all recorded from the ladder `in`
\* with the reasoning factors `factors`.
ResolvedHistory(wins, losses, in, factors) ==
    [i \in 1..(wins + losses) |->
        ResolvedTrade(NewTrade(i, in.symbol, [in EXCEPT !.reasoningFactors = factors]),
                      IF i <= wins THEN "WIN" ELSE "LOSS",
                      IF i <= wins THEN in.takeProfit3 ELSE in.stopLoss)]

\* the rule updateLearningRules adds for low confidence trades
AvoidRule ==
    [condition |-> "low_confidence", action |-> "AVOID_SIGNAL",
     confidence |-> 700000, successRate |-> 200]

ApplyInputs ==
    [call : {"applyLearningToSignal"},
     wins : 0..MaxWins, losses : 0..MaxLosses,
     tradeFactors : {<<>>, BullishFactors},
     rules : {{}, {AvoidRule}},
     symbol : Symbols,
     confidence : {600000, 800000},
     reasoningFactors : {<<>>, <<"Positive news sentiment">>, BullishFactors}]

\* the history behind an input and the metrics updateMetrics keeps for it
AppliedHistory(in) == ResolvedHistory(in.wins, in.losses, SellLadder, in.tradeFactors)
AppliedMetrics(in) == updateMetrics(InitMetrics, AppliedHistory(in))

\* updateTradeOutcome called for a PENDING trade recorded from a ladder
UpdateInputs ==
    [call : {"updateTradeOutcome"}, in : TradeInputs, outcome : Terminal,
     exitPrice : Prices]

MaxUpdates == 6
RECURSIVE OutcomeLists(_)
\* the lists of n outcomes, won or lost
OutcomeLists(n) ==
    IF n = 0 THEN {<<>>}
    ELSE {Append(list, outcome) : list \in OutcomeLists(n - 1), outcome \in {"WIN", "LOSS"}}

\* the rules of an engine are updated after each of a list of resolved
\* trades, all recorded with the same reasoning factors
RuleInputs ==
    [call : {"updateLearningRules"},
     outcomes : UNION {OutcomeLists(n) : n \in 1..MaxUpdates},
     updates : 1..MaxUpdates,
     tradeFactors : {<<"Positive news sentiment">>, BullishFactors}]

\* the trades of such an input, resolved at the ends of their ladder
RuleHistory(in) ==
    [i \in 1..Len(in.outcomes) |->
        ResolvedTrade(NewTrade(i, BuyLadder.symbol,
                               [BuyLadder EXCEPT !.reasoningFactors = in.tradeFactors]),
                      in.outcomes[i],
                      IF in.outcomes[i] = "WIN" THEN BuyLadder.takeProfit3
                      ELSE BuyLadder.stopLoss)]

RECURSIVE RulesOfLearningEngine(_, _)
\* LearningEngine: updateTradeOutcome calls updateLearningRules(trade) for each
\* trade it resolves; the rules after the first n trades
RulesOfLearningEngine(history, n) ==
    IF n = 0 THEN {}
    ELSE updateLearningRules_LearningEngine(RulesOfLearningEngine(history, n - 1),
                                            history[n])

RECURSIVE RulesOfEnhancedEngine(_, _)
\* EnhancedLearningEngine: the five-minute interval calls updateLearningRules;
\* the rules after update n over the same resolved trades.  addOrUpdateRule
\* gives a new rule timesApplied 1 and adds 1 at each later update of it.
RulesOfEnhancedEngine(history, n) ==
    IF n = 0 THEN {}
    ELSE LET before == RulesOfEnhancedEngine(history, n - 1)
             plain == {[condition |-> r.condition, action |-> r.action,
                        confidence |-> r.confidence, successRate |-> r.successRate] :
                       r \in before}
             after == updateLearningRules(plain, history)
             old(r) == {b \in before : b.condition = r.condition}
             touched(r) == \E f \in updateLearningRules({}, history) :
                              f.condition = r.condition
         IN {[condition |-> r.condition, action |-> r.action,
              confidence |-> r.confidence, successRate |-> r.successRate,
              timesApplied |-> IF old(r) = {} THEN 1
                               ELSE LET b == CHOOSE b \in old(r) : TRUE
                                    IN IF touched(r) THEN b.timesApplied + 1
                                       ELSE b.timesApplied] : r \in after}

ApplyInit ==
    /\ applyIn \in ApplyInputs \cup UpdateInputs \cup RuleInputs
    /\ applyOut = NoCall

notApply ==
    <<learnVars, ladderVars, decideVars, emitVars, engineVars, monitorVars, storeVars,
      pendingVars>>

\* what one engine's function returns for an input: as it is called, with
\* neither factors nor rules (the per-symbol adjustment alone), and with the
\* factors but no rules
Applied(call, apply(_, _, _, _, _), m, in) ==
    [call |-> call,
     result |-> apply(m, in.rules, in.symbol, in.confidence, in.reasoningFactors),
     plain |-> apply(m, {}, in.symbol, in.confidence, <<>>),
     unruled |-> apply(m, {}, in.symbol, in.confidence, in.reasoningFactors)]

\* EnhancedLearningEngine.applyLearningToSignal
ApplyLearningToSignal ==
    /\ applyOut = NoCall
    /\ applyIn.call = "applyLearningToSignal"
    /\ \E m \in {AppliedMetrics(applyIn)} :
          applyOut' = Applied("applyLearningToSignal", applyLearningToSignal, m, applyIn)
    /\ UNCHANGED <<applyIn, notApply>>

\* LearningEngine.applyLearningToSignal, of an engine without rules
ApplyLearningToSignal_LearningEngine ==
    /\ applyOut = NoCall
    /\ applyIn.call = "applyLearningToSignal"
    /\ \E m \in {updateMetrics_LearningEngine(AppliedHistory(applyIn))} :
          applyOut' = Applied("applyLearningToSignal_LearningEngine",
                              applyLearningToSignal_LearningEngine, m,
                              [applyIn EXCEPT !.rules = {}])
    /\ UNCHANGED <<applyIn, notApply>>

\* EnhancedLearningEngine.updateTradeOutcome
UpdateTradeOutcome ==
    /\ applyOut = NoCall
    /\ applyIn.call = "updateTradeOutcome"
    /\ applyOut' = [call |-> "updateTradeOutcome",
                    trade |-> ResolvedTrade(NewTrade(1, applyIn.in.symbol, applyIn.in),
                                            applyIn.outcome, applyIn.exitPrice)]
    /\ UNCHANGED <<applyIn, notApply>>

\* LearningEngine.updateTradeOutcome
UpdateTradeOutcome_LearningEngine ==
    /\ applyOut = NoCall
    /\ applyIn.call = "updateTradeOutcome"
    /\ applyOut' = [call |-> "updateTradeOutcome_LearningEngine",
                    trade |-> ResolvedTrade_LearningEngine(
                                  NewTrade(1, applyIn.in.symbol, applyIn.in),
                                  applyIn.outcome, applyIn.exitPrice)]
    /\ UNCHANGED <<applyIn, notApply>>

\* EnhancedLearningEngine.updateLearningRules, at each interval of the input.
\* Every trade of the input is of low confidence and of high volatility, so
\* a rule is drawn from all of them.
UpdateRulesEachTrade ==
    /\ applyOut = NoCall
    /\ applyIn.call = "updateLearningRules"
    /\ applyOut' = [call |-> "updateLearningRules",
                    observations |-> Len(applyIn.outcomes),
                    rules |-> RulesOfEnhancedEngine(RuleHistory(applyIn), applyIn.updates)]
    /\ UNCHANGED <<applyIn, notApply>>

\* LearningEngine.updateLearningRules, for each trade of the input; a rule
\* is applied once for each trade it is drawn from
UpdateRulesEachTrade_LearningEngine ==
    /\ applyOut = NoCall
    /\ applyIn.call = "updateLearningRules"
    /\ applyOut' = [call |-> "updateLearningRules_LearningEngine",
                    observations |-> 0,
                    rules |-> RulesOfLearningEngine(RuleHistory(applyIn),
                                                    Len(applyIn.outcomes))]
    /\ UNCHANGED <<applyIn, notApply>>

ApplyNext ==
    \/ ApplyLearningToSignal
    \/ ApplyLearningToSignal_LearningEngine
    \/ UpdateTradeOutcome
    \/ UpdateTradeOutcome_LearningEngine
    \/ UpdateRulesEachTrade
    \/ UpdateRulesEachTrade_LearningEngine

InitApply ==
    /\ ApplyInit
    /\ LearnIdle
    /\ LadderIdle
    /\ DecideIdle
    /\ EmitIdle
    /\ EngineIdle
    /\ MonitorIdle
    /\ StoreIdle
    /\ PendingIdle

SpecApply == InitApply /\ [][ApplyNext]_vars

\* the symbol of the call has at least 10 resolved trades and a win rate
\* below 0.3
C21_PoorSymbol ==
    /\ applyIn.symbol = SellLadder.symbol
    /\ applyIn.wins + applyIn.losses >= 10
    /\ applyIn.wins * 10 < 3 * (applyIn.wins + applyIn.losses)

\* C21: for a symbol with at least 10 resolved trades and a win rate below
\* 0.3, applyLearningToSignal of EnhancedLearningEngine returns shouldAvoid
\* set, whatever the confidence, the factors and the rules.
C21_PoorSymbolAvoided ==
    (applyOut.call = "applyLearningToSignal" /\ C21_PoorSymbol)
        => applyOut.result.shouldAvoid

\* 2 wins and 8 losses, no rule: the flag is set by the symbol's record
C21_Witness ==
    /\ applyOut.call = "applyLearningToSignal"
    /\ applyIn.wins = 2 /\ applyIn.losses = 8
    /\ applyIn.symbol = SellLadder.symbol
    /\ applyIn.rules = {}
    /\ applyOut.result.shouldAvoid

\* b lies within 10% of a
WithinTenPercent(a, b) == 10 * b >= 9 * a /\ 10 * b <= 11 * a

\* C22: the per-symbol adjustment changes the confidence by at most 10%, and
\* the per-factor adjustment changes the outcome of the per-symbol
\* adjustment by at most 10%, however many reasoning factors there are.
C22_AdjustmentsBounded ==
    applyIn.call = "applyLearningToSignal" /\ applyOut # NoCall =>
        /\ WithinTenPercent(applyIn.confidence, applyOut.plain.adjustedConfidence)
        /\ WithinTenPercent(applyOut.plain.adjustedConfidence,
                            applyOut.unruled.adjustedConfidence)

\* C23: a trade that updateTradeOutcome has made WIN, PARTIAL or LOSS has a
\* non-empty lessonsLearned list, in either engine.
C23_TerminalHasLessons ==
    (applyIn.call = "updateTradeOutcome" /\ applyOut # NoCall
        /\ applyOut.trade.outcome \in Terminal)
        => applyOut.trade.lessonsLearned # <<>>

\* C24: after a rule update every learning rule is backed by at least 3
\* observations, and no rule applied 5 times or more has a success rate
\* below 0.2.
C24_RulesBacked ==
    (applyIn.call = "updateLearningRules" /\ applyOut # NoCall) =>
        \A r \in applyOut.rules :
            /\ \/ applyOut.observations >= 3
               \/ r.timesApplied >= 3
            /\ r.timesApplied >= 5 => r.successRate >= 200

(***************************************************************************)
(* Decision engines.  Scores are in quarters: Pts(n) is a score of n.      *)
(***************************************************************************)
ScoreUnit == 4
Pts(n) == n * ScoreUnit

\* The direction rule with "at least" in the place of "more than".
BaseDirectionAtLeast(bullishScore, bearishScore, minimumScoreDifference) ==
    IF bullishScore >= bearishScore + minimumScoreDifference THEN "BUY"
    ELSE IF bearishScore >= bullishScore + minimumScoreDifference THEN "SELL"
    ELSE "HOLD"

\* The news boost without its cap.
PreNewsConfidenceUncapped(confidence_level) == confidence_level + 150000

\* A risk gate that lets every decision pass.
RiskGateOpen(signal, riskLevel, scoreDifference) == signal

\* The direction rule shared by the engines: BUY when the bullish score
\* exceeds the bearish one by more than the gap, SELL in the mirrored case.
BaseDirection(bullishScore, bearishScore, minimumScoreDifference) ==
    IF bullishScore > bearishScore + minimumScoreDifference THEN "BUY"
    ELSE IF bearishScore > bullishScore + minimumScoreDifference THEN "SELL"
    ELSE "HOLD"

\* "Risk management based on market conditions": under HIGH risk a decision
\* with a score difference below 6 becomes HOLD.
RiskGate(signal, riskLevel, scoreDifference) ==
    IF riskLevel = "HIGH" /\ signal # "HOLD" /\ scoreDifference < Pts(6)
    THEN "HOLD" ELSE signal

\* createPreNewsSignal: Math.min(0.95, brainData.confidence_level + 0.15)
PreNewsConfidence(confidence_level) == Min(950000, confidence_level + 150000)

\* "DON'T TRADE AGAINST THE TREND" of AdvancedAIAnalyzer
TrendVeto(signal, overallTrend) ==
    IF signal = "BUY" /\ overallTrend = "BEARISH" THEN "HOLD"
    ELSE IF signal = "SELL" /\ overallTrend = "BULLISH" THEN "HOLD"
    ELSE signal

\* baseConfidence + confidenceBoost + min(0.25, scoreDifference * 0.03),
\* capped at 0.95
EnhancedConfidence(confidenceBoost, scoreDifference) ==
    Min(950000, 650000 + confidenceBoost + Min(250000, scoreDifference * 7500))

\* The market data of AutonomousTradingEngine (generateXAUUSDData,
\* generateEURUSDData and what scrapeMarketData sets): rsi in points, macd,
\* reliability in thousandths, support and resistance as
\* distances below and above the current price.
MarketDataSet ==
    [currentPrice : {10550}, supportDist : {40, 80}, resistanceDist : {40, 80},
     rsi : {28, 45, 55, 72}, macd : {-1000, 200, 1000}, volume : {40000, 100000},
     volatility : {150, 450}, trend : {"BULLISH", "BEARISH", "SIDEWAYS"},
     reliability : {750, 900}, newsImpact : {"NONE", "HIGH"}]

\* calculateEnhancedConfidence
calculateEnhancedConfidence(marketData) ==
    LET technical == 500000
            + (IF marketData.rsi < 30 \/ marketData.rsi > 70 THEN 200000
               ELSE IF marketData.rsi > 40 /\ marketData.rsi < 60 THEN 100000 ELSE 0)
            + (IF Abs(marketData.macd) > 500 THEN 150000 ELSE 0)
            + (IF marketData.volume > 50000 THEN 100000 ELSE 0)
        reliable == IF marketData.reliability # 0
                    THEN (technical * marketData.reliability) \div 1000
                    ELSE technical
        news == reliable
            + (IF marketData.newsImpact = "HIGH" THEN 100000
               ELSE IF marketData.newsImpact = "MEDIUM" THEN 50000 ELSE 0)
        confidence == news
            + (IF marketData.trend = "BULLISH" /\ marketData.rsi > 50 THEN 50000 ELSE 0)
            + (IF marketData.trend = "BEARISH" /\ marketData.rsi < 50 THEN 50000 ELSE 0)
    IN Min(950000, Max(300000, confidence))

\* pricePosition > num / 10, with
\* pricePosition = (currentPrice - support) / (resistance - support)
PricePositionAbove(marketData, num) ==
    10 * marketData.supportDist >
        num * (marketData.supportDist + marketData.resistanceDist)
PricePositionBelow(marketData, num) ==
    10 * marketData.supportDist <
        num * (marketData.supportDist + marketData.resistanceDist)

\* The scores of determineEnhancedSignalType, before its two tie-breaking
\* bonuses.
EnhancedTechnicalScores(marketData) ==
    [bullishScore |->
        (IF marketData.rsi < 30 THEN 3 ELSE IF marketData.rsi < 40 THEN 2
         ELSE IF marketData.rsi > 70 THEN 0 ELSE IF marketData.rsi > 60 THEN 0
         ELSE IF marketData.rsi > 50 THEN 1 ELSE 0)
        + (IF marketData.macd > 500 THEN 2 ELSE IF marketData.macd > 0 THEN 1 ELSE 0)
        + (IF PricePositionAbove(marketData, 8) THEN 2
           ELSE IF PricePositionAbove(marketData, 6) THEN 1 ELSE 0)
        + (IF marketData.trend = "BULLISH" THEN 2 ELSE 0),
     bearishScore |->
        (IF marketData.rsi < 30 THEN 0 ELSE IF marketData.rsi < 40 THEN 0
         ELSE IF marketData.rsi > 70 THEN 3 ELSE IF marketData.rsi > 60 THEN 2
         ELSE IF marketData.rsi > 50 THEN 0 ELSE 1)
        + (IF marketData.macd > 500 THEN 0 ELSE IF marketData.macd > 0 THEN 0
           ELSE IF marketData.macd < -500 THEN 2 ELSE 1)
        + (IF PricePositionAbove(marketData, 8) THEN 0
           ELSE IF PricePositionAbove(marketData, 6) THEN 0
           ELSE IF PricePositionBelow(marketData, 2) THEN 2
           ELSE IF PricePositionBelow(marketData, 4) THEN 1 ELSE 0)
        + (IF marketData.trend = "BEARISH" THEN 2 ELSE 0)]

\* "if (bullishScore > bearishScore) bullishScore += 1; else bearishScore += 1"
\* when the condition holds
LeaderBonus(scores, condition) ==
    IF ~condition THEN scores
    ELSE IF scores.bullishScore > scores.bearishScore
    THEN [scores EXCEPT !.bullishScore = @ + 1]
    ELSE [scores EXCEPT !.bearishScore = @ + 1]

\* determineEnhancedSignalType: the decision, with the scores it rests on.
\* The engine has no risk level; the trend it is handed is marketData.trend.
determineEnhancedSignalType(marketData, confidence_level) ==
    LET scores == LeaderBonus(LeaderBonus(EnhancedTechnicalScores(marketData),
                                          marketData.volume > 75000),
                              marketData.reliability > 800)
        direction == BaseDirection(scores.bullishScore, scores.bearishScore, 2)
    IN [engine |-> "determineEnhancedSignalType",
        bullishScore |-> Pts(scores.bullishScore),
        bearishScore |-> Pts(scores.bearishScore),
        minimumScoreDifference |-> Pts(2),
        scoreDifference |-> Pts(Abs(scores.bullishScore - scores.bearishScore)),
        qualityScore |-> 0,
        direction |-> direction,
        marketTrend |-> marketData.trend,
        riskLevel |-> "NONE",
        signal |-> IF confidence_level < 650000 THEN "HOLD" ELSE direction,
        confidence |-> confidence_level]

\* getEnhancedMarketData for a HIGH impact event: the volatility is raised
\* 2.5 times.
getEnhancedMarketData(marketData) ==
    [marketData EXCEPT !.newsImpact = "HIGH",
                       !.volatility = (@ * 25) \div 10]

\* determinePreNewsSignalType.  The currency branch tests marketData.symbol,
\* a field the generated market data does not have, so it adds nothing.
determinePreNewsSignalType(marketData, confidence_level) ==
    LET bullishScore ==
            (IF marketData.rsi < 40 THEN 2 ELSE 0)
            + (IF marketData.macd > 0 THEN 1 ELSE 0)
            + (IF marketData.volatility > 400 /\ marketData.trend = "BULLISH"
               THEN 1 ELSE 0)
        bearishScore ==
            (IF marketData.rsi < 40 THEN 0 ELSE IF marketData.rsi > 60 THEN 2 ELSE 0)
            + (IF marketData.macd > 0 THEN 0 ELSE 1)
            + (IF marketData.volatility > 400 /\ marketData.trend = "BEARISH"
               THEN 1 ELSE 0)
        direction == BaseDirection(bullishScore, bearishScore, 1)
    IN [engine |-> "determinePreNewsSignalType",
        bullishScore |-> Pts(bullishScore),
        bearishScore |-> Pts(bearishScore),
        minimumScoreDifference |-> Pts(1),
        scoreDifference |-> Pts(Abs(bullishScore - bearishScore)),
        qualityScore |-> 0,
        direction |-> direction,
        marketTrend |-> marketData.trend,
        riskLevel |-> "NONE",
        signal |-> IF confidence_level < 700000 THEN "HOLD" ELSE direction,
        confidence |-> PreNewsConfidence(confidence_level)]

(***************************************************************************)
(* EnhancedAIAnalyzer (services/enhancedAIAnalyzer.ts).  A source that     *)
(* could not be extracted is null: present = FALSE.  Sub-scores are in     *)
(* halves, because analyzeNews adds 0.5 per event.                         *)
(***************************************************************************)
TradingViewSet ==
    {[present |-> FALSE, overallSentiment |-> "NEUTRAL", confidence |-> 0,
      priceChangePercent |-> 0],
     [present |-> TRUE, overallSentiment |-> "BULLISH", confidence |-> 800,
      priceChangePercent |-> 1500],
     [present |-> TRUE, overallSentiment |-> "BULLISH", confidence |-> 600,
      priceChangePercent |-> 0],
     [present |-> TRUE, overallSentiment |-> "BEARISH", confidence |-> 800,
      priceChangePercent |-> -1500],
     [present |-> TRUE, overallSentiment |-> "BEARISH", confidence |-> 600,
      priceChangePercent |-> 0],
     [present |-> TRUE, overallSentiment |-> "NEUTRAL", confidence |-> 600,
      priceChangePercent |-> 0]}

\* a news event: whether its title names an interest rate or inflation, and
\* its currency
RateEventEUR == [rate |-> TRUE, currency |-> "EUR"]
PlainEventUSD == [rate |-> FALSE, currency |-> "USD"]
NewsSet ==
    {[present |-> FALSE, highImpactEvents |-> <<>>, mediumImpactEvents |-> 0,
      marketImpact |-> "NEUTRAL"],
     [present |-> TRUE, highImpactEvents |-> <<>>, mediumImpactEvents |-> 0,
      marketImpact |-> "POSITIVE"],
     [present |-> TRUE, highImpactEvents |-> <<>>, mediumImpactEvents |-> 1,
      marketImpact |-> "NEGATIVE"],
     [present |-> TRUE, highImpactEvents |-> <<RateEventEUR>>, mediumImpactEvents |-> 0,
      marketImpact |-> "POSITIVE"],
     [present |-> TRUE, highImpactEvents |-> <<PlainEventUSD>>, mediumImpactEvents |-> 0,
      marketImpact |-> "NEGATIVE"],
     [present |-> TRUE, highImpactEvents |-> <<RateEventEUR, PlainEventUSD>>,
      mediumImpactEvents |-> 0, marketImpact |-> "NEUTRAL"]}

DxySet ==
    {[present |-> FALSE, expectedImpact |-> "NEUTRAL", correlationStrength |-> "WEAK"],
     [present |-> TRUE, expectedImpact |-> "POSITIVE", correlationStrength |-> "STRONG"],
     [present |-> TRUE, expectedImpact |-> "NEGATIVE", correlationStrength |-> "STRONG"],
     [present |-> TRUE, expectedImpact |-> "NEGATIVE", correlationStrength |-> "WEAK"],
     [present |-> TRUE, expectedImpact |-> "NEUTRAL", correlationStrength |-> "WEAK"]}

ChartSet ==
    {[present |-> FALSE, tradingSignal |-> "HOLD", trend |-> "SIDEWAYS",
      momentum |-> "WEAK", volatility |-> "LOW"],
     [present |-> TRUE, tradingSignal |-> "BUY", trend |-> "BULLISH",
      momentum |-> "STRONG", volatility |-> "LOW"],
     [present |-> TRUE, tradingSignal |-> "SELL", trend |-> "BEARISH",
      momentum |-> "STRONG", volatility |-> "HIGH"],
     [present |-> TRUE, tradingSignal |-> "BUY", trend |-> "BEARISH",
      momentum |-> "WEAK", volatility |-> "HIGH"],
     [present |-> TRUE, tradingSignal |-> "HOLD", trend |-> "SIDEWAYS",
      momentum |-> "WEAK", volatility |-> "MEDIUM"]}

\* The brain_data row of the symbol.  performEnhancedAnalysis reads the
\* fields confidence, successfulTrades and failedTrades; a row as
\* saveBrainData writes it has none of them (hasStats = FALSE) and every
\* comparison with the undefined value is false.
BrainRows ==
    {[present |-> FALSE, hasStats |-> FALSE, confidence |-> 0,
      successfulTrades |-> 0, failedTrades |-> 0],
     [present |-> TRUE, hasStats |-> FALSE, confidence |-> 0,
      successfulTrades |-> 0, failedTrades |-> 0],
     [present |-> TRUE, hasStats |-> TRUE, confidence |-> 800000,
      successfulTrades |-> 6, failedTrades |-> 0],
     [present |-> TRUE, hasStats |-> TRUE, confidence |-> 300000,
      successfulTrades |-> 0, failedTrades |-> 4]}

EnhancedEvidence ==
    [symbol : Symbols, tradingViewSentiment : TradingViewSet, newsAnalysis : NewsSet,
     dxyCorrelation : DxySet, interactiveChart : ChartSet, brain : BrainRows]

\* assessMarketConditions: the risk level (the trend it returns is always
\* SIDEWAYS)
assessMarketConditions(data) ==
    LET tv == data.tradingViewSentiment
        news == data.newsAnalysis
        dxy == data.dxyCorrelation
        chart == data.interactiveChart
        highNews == news.present /\ Len(news.highImpactEvents) > 0
        mediumNews == news.present /\ ~highNews /\ news.mediumImpactEvents > 0
        risk1 == IF highNews THEN "HIGH" ELSE IF mediumNews THEN "MEDIUM" ELSE "LOW"
        strongDxy == dxy.present /\ dxy.correlationStrength = "STRONG"
        risk2 == IF strongDxy /\ risk1 = "LOW" THEN "MEDIUM" ELSE risk1
        risk3 == IF chart.present /\ chart.volatility = "HIGH" THEN "HIGH" ELSE risk2
        volatility == 200
            + (IF tv.present /\ tv.confidence > 700 THEN 50 ELSE 0)
            + (IF highNews THEN 200 ELSE IF mediumNews THEN 100 ELSE 0)
            + (IF strongDxy THEN 50 ELSE 0)
            + (IF chart.present /\ chart.volatility = "HIGH" THEN 150
               ELSE IF chart.present /\ chart.volatility = "MEDIUM" THEN 80 ELSE 0)
    IN [volatility |-> Min(800, volatility), trend |-> "SIDEWAYS",
        newsImpact |-> IF highNews THEN "HIGH" ELSE IF mediumNews THEN "MEDIUM" ELSE "LOW",
        tradingViewSentiment |-> IF tv.present THEN tv.overallSentiment ELSE "NEUTRAL",
        dxyImpact |-> IF dxy.present THEN dxy.expectedImpact ELSE "NEUTRAL",
        riskLevel |-> risk3]

\* analyzeTradingViewSentiment, in halves
analyzeTradingViewSentiment(sentiment) ==
    [bullishScore |-> 2 *
        ((IF sentiment.overallSentiment = "BULLISH" THEN 4 ELSE 0)
         + (IF sentiment.confidence > 700 /\ sentiment.overallSentiment = "BULLISH"
            THEN 1 ELSE 0)
         + (IF sentiment.priceChangePercent > 1000 THEN 1 ELSE 0)),
     bearishScore |-> 2 *
        ((IF sentiment.overallSentiment = "BEARISH" THEN 4 ELSE 0)
         + (IF sentiment.confidence > 700 /\ sentiment.overallSentiment = "BEARISH"
            THEN 1 ELSE 0)
         + (IF sentiment.priceChangePercent < -1000 THEN 1 ELSE 0))]

RECURSIVE NewsEventScores(_, _)
\* the forEach over highImpactEvents of analyzeNews, in halves
NewsEventScores(events, symbol) ==
    IF events = <<>> THEN [bullishScore |-> 0, bearishScore |-> 0]
    ELSE LET rest == NewsEventScores(Tail(events), symbol)
             event == Head(events)
         IN IF symbol = "XAUUSD"
            THEN [rest EXCEPT !.bullishScore = @ + (IF event.rate THEN 2 ELSE 0)]
            ELSE IF event.currency = "EUR"
            THEN [rest EXCEPT !.bullishScore = @ + 1]
            ELSE [rest EXCEPT !.bearishScore = @ + 1]

\* analyzeNews, in halves
analyzeNews(newsAnalysis, symbol) ==
    LET events == NewsEventScores(newsAnalysis.highImpactEvents, symbol) IN
    [bullishScore |-> events.bullishScore
        + (IF newsAnalysis.marketImpact = "POSITIVE" THEN 2 ELSE 0),
     bearishScore |-> events.bearishScore
        + (IF newsAnalysis.marketImpact = "NEGATIVE" THEN 2 ELSE 0)]

\* analyzeDXYCorrelation, in halves
analyzeDXYCorrelation(dxy) ==
    [bullishScore |-> 2 *
        (IF dxy.expectedImpact = "POSITIVE"
         THEN 3 + (IF dxy.correlationStrength = "STRONG" THEN 1 ELSE 0) ELSE 0),
     bearishScore |-> 2 *
        (IF dxy.expectedImpact = "NEGATIVE"
         THEN 3 + (IF dxy.correlationStrength = "STRONG" THEN 1 ELSE 0) ELSE 0)]

\* analyzeInteractiveChart, in halves
analyzeInteractiveChart(chart) ==
    [bullishScore |-> 2 *
        ((IF chart.tradingSignal = "BUY" THEN 3 ELSE 0)
         + (IF chart.trend = "BULLISH" THEN 2 ELSE 0)
         + (IF chart.momentum = "STRONG" /\ chart.trend = "BULLISH" THEN 1 ELSE 0)),
     bearishScore |-> 2 *
        ((IF chart.tradingSignal = "SELL" THEN 3 ELSE 0)
         + (IF chart.trend = "BEARISH" THEN 2 ELSE 0)
         + (IF chart.momentum = "STRONG" /\ chart.trend = "BEARISH" THEN 1 ELSE 0))]

\* performEnhancedAnalysis of services/enhancedAIAnalyzer.ts
performEnhancedAnalysis(data) ==
    LET brainRow == data.brain
        brainHigh == /\ brainRow.present /\ brainRow.hasStats
                     /\ brainRow.confidence > 750000 /\ brainRow.successfulTrades > 5
        brainLow == /\ brainRow.present /\ brainRow.hasStats /\ ~brainHigh
                    /\ brainRow.confidence < 400000 /\ brainRow.failedTrades > 3
        tv == IF data.tradingViewSentiment.present
              THEN analyzeTradingViewSentiment(data.tradingViewSentiment)
              ELSE [bullishScore |-> 0, bearishScore |-> 0]
        news == IF data.newsAnalysis.present
                THEN analyzeNews(data.newsAnalysis, data.symbol)
                ELSE [bullishScore |-> 0, bearishScore |-> 0]
        dxy == IF data.dxyCorrelation.present
               THEN analyzeDXYCorrelation(data.dxyCorrelation)
               ELSE [bullishScore |-> 0, bearishScore |-> 0]
        chart == IF data.interactiveChart.present
                 THEN analyzeInteractiveChart(data.interactiveChart)
                 ELSE [bullishScore |-> 0, bearishScore |-> 0]
        bullishScore == tv.bullishScore * 8 + news.bullishScore * 4
                        + dxy.bullishScore * 4 + chart.bullishScore * 4
                        + (IF brainHigh THEN Pts(2) ELSE IF brainLow THEN 0 - Pts(2) ELSE 0)
        bearishScore == tv.bearishScore * 8 + news.bearishScore * 4
                        + dxy.bearishScore * 4 + chart.bearishScore * 4
                        + (IF brainLow THEN 0 - Pts(2) ELSE 0)
        confidenceBoost == (IF brainHigh THEN 100000 ELSE 0)
                           + (IF data.tradingViewSentiment.present THEN 250000 ELSE 0)
                           + (IF data.newsAnalysis.present THEN 150000 ELSE 0)
                           + (IF data.dxyCorrelation.present THEN 150000 ELSE 0)
                           + (IF data.interactiveChart.present THEN 100000 ELSE 0)
        qualityScore == (IF data.tradingViewSentiment.present THEN 350 ELSE 0)
                        + (IF data.newsAnalysis.present THEN 200 ELSE 0)
                        + (IF data.dxyCorrelation.present THEN 200 ELSE 0)
                        + (IF data.interactiveChart.present THEN 200 ELSE 0)
        marketConditions == assessMarketConditions(data)
        scoreDifference == Abs(bullishScore - bearishScore)
        direction == BaseDirection(bullishScore, bearishScore, Pts(5))
    IN [engine |-> "performEnhancedAnalysis",
        bullishScore |-> bullishScore,
        bearishScore |-> bearishScore,
        minimumScoreDifference |-> Pts(5),
        scoreDifference |-> scoreDifference,
        qualityScore |-> qualityScore,
        direction |-> direction,
        marketTrend |-> marketConditions.trend,
        riskLevel |-> marketConditions.riskLevel,
        signal |-> RiskGate(direction, marketConditions.riskLevel, scoreDifference),
        confidence |-> EnhancedConfidence(confidenceBoost, scoreDifference)]

(***************************************************************************)
(* EnhancedAIAnalyzer, the variant of part_011 (cheat sheet, TradingView,  *)
(* news; weights 4, 3.5 and 2.5).                                          *)
(***************************************************************************)
\* cheatSheet.technicalIndicators (recommendation, signals, trend, rsi, macd)
\* and cheatSheet.sentiment; rsi in points, macd and sentiment in thousandths
AbsentCheatSheet ==
    [present |-> FALSE, recommendation |-> "HOLD", signals |-> <<>>,
     trend |-> "SIDEWAYS", rsi |-> 0, macd |-> 0, sentiment |-> 500]
CheatSheetSet ==
    {AbsentCheatSheet} \cup
    [present : {TRUE},
     recommendation : {"STRONG_BUY", "BUY", "HOLD", "SELL", "STRONG_SELL"},
     signals : {<<>>, <<"BREAKOUT">>, <<"BREAKDOWN">>},
     trend : {"BULLISH", "BEARISH", "SIDEWAYS"},
     rsi : {20, 50}, macd : {0}, sentiment : {500}]

CheatSheetEvidence ==
    [symbol : Symbols, cheatSheet : CheatSheetSet,
     tradingViewSentiment : TradingViewSet, newsAnalysis : NewsSet]

RECURSIVE CheatSignalScores(_, _)
\* the forEach over indicators.signals of analyzeCheatSheet; breaks counts
\* SUPPORT_BREAK and RESISTANCE_BREAK (part_009) or not (part_011)
CheatSignalScores(indicatorSignals, breaks) ==
    IF indicatorSignals = <<>> THEN [bullishScore |-> 0, bearishScore |-> 0]
    ELSE LET rest == CheatSignalScores(Tail(indicatorSignals), breaks)
             signal == Head(indicatorSignals)
         IN IF signal \in {"BREAKOUT", "MOMENTUM", "OVERSOLD"}
            THEN [rest EXCEPT !.bullishScore = @ + 2]
            ELSE IF signal \in {"BREAKDOWN", "OVERBOUGHT"}
            THEN [rest EXCEPT !.bearishScore = @ + 2]
            ELSE IF breaks /\ signal = "SUPPORT_BREAK"
            THEN [rest EXCEPT !.bearishScore = @ + 3]
            ELSE IF breaks /\ signal = "RESISTANCE_BREAK"
            THEN [rest EXCEPT !.bullishScore = @ + 3]
            ELSE rest

\* the switch on indicators.recommendation
RecommendationScores(recommendation) ==
    [bullishScore |-> IF recommendation = "STRONG_BUY" THEN 5
                      ELSE IF recommendation = "BUY" THEN 4 ELSE 0,
     bearishScore |-> IF recommendation = "STRONG_SELL" THEN 5
                      ELSE IF recommendation = "SELL" THEN 4 ELSE 0]

\* analyzeCheatSheet of part_011, in whole points
analyzeCheatSheet_part011(cheatSheet) ==
    LET rec == RecommendationScores(cheatSheet.recommendation)
        sig == CheatSignalScores(cheatSheet.signals, FALSE)
    IN [bullishScore |-> rec.bullishScore + sig.bullishScore,
        bearishScore |-> rec.bearishScore + sig.bearishScore]

\* analyzeTradingViewSentiment of part_011, in whole points
analyzeTradingViewSentiment_part011(sentiment) ==
    [bullishScore |->
        (IF sentiment.overallSentiment = "BULLISH" THEN 4 ELSE 0)
        + (IF sentiment.confidence > 700 /\ sentiment.overallSentiment = "BULLISH"
           THEN 1 ELSE 0),
     bearishScore |->
        (IF sentiment.overallSentiment = "BEARISH" THEN 4 ELSE 0)
        + (IF sentiment.confidence > 700 /\ sentiment.overallSentiment = "BEARISH"
           THEN 1 ELSE 0)]

\* assessMarketConditions of part_011: the trend is the cheat sheet's, the
\* risk level comes from the news alone
assessMarketConditions_part011(data) ==
    LET news == data.newsAnalysis
        highNews == news.present /\ Len(news.highImpactEvents) > 0
        mediumNews == news.present /\ ~highNews /\ news.mediumImpactEvents > 0
        tv == data.tradingViewSentiment
    IN [volatility |-> Min(800, 200
            + (IF /\ data.cheatSheet.present
                  /\ \E i \in 1..Len(data.cheatSheet.signals) :
                        data.cheatSheet.signals[i] = "BREAKOUT"
               THEN 100 ELSE 0)
            + (IF tv.present /\ tv.confidence > 700 THEN 50 ELSE 0)
            + (IF highNews THEN 200 ELSE IF mediumNews THEN 100 ELSE 0)),
        trend |-> IF data.cheatSheet.present THEN data.cheatSheet.trend ELSE "SIDEWAYS",
        newsImpact |-> IF highNews THEN "HIGH" ELSE IF mediumNews THEN "MEDIUM" ELSE "LOW",
        tradingViewSentiment |-> IF tv.present THEN tv.overallSentiment ELSE "NEUTRAL",
        dxyImpact |-> "NEUTRAL",
        riskLevel |-> IF highNews THEN "HIGH" ELSE IF mediumNews THEN "MEDIUM" ELSE "LOW"]

\* performEnhancedAnalysis of part_011: scores in quarters (16 per cheat sheet
\* point, 14 per TradingView point, 5 per half news point)
performEnhancedAnalysis_part011(data) ==
    LET cheat == IF data.cheatSheet.present
                 THEN analyzeCheatSheet_part011(data.cheatSheet)
                 ELSE [bullishScore |-> 0, bearishScore |-> 0]
        tv == IF data.tradingViewSentiment.present
              THEN analyzeTradingViewSentiment_part011(data.tradingViewSentiment)
              ELSE [bullishScore |-> 0, bearishScore |-> 0]
        news == IF data.newsAnalysis.present
                THEN analyzeNews(data.newsAnalysis, data.symbol)
                ELSE [bullishScore |-> 0, bearishScore |-> 0]
        bullishScore == cheat.bullishScore * 16 + tv.bullishScore * 14
                        + news.bullishScore * 5
        bearishScore == cheat.bearishScore * 16 + tv.bearishScore * 14
                        + news.bearishScore * 5
        confidenceBoost == (IF data.cheatSheet.present THEN 250000 ELSE 0)
                           + (IF data.tradingViewSentiment.present THEN 200000 ELSE 0)
                           + (IF data.newsAnalysis.present THEN 150000 ELSE 0)
        qualityScore == (IF data.cheatSheet.present THEN 400 ELSE 0)
                        + (IF data.tradingViewSentiment.present THEN 350 ELSE 0)
                        + (IF data.newsAnalysis.present THEN 250 ELSE 0)
        marketConditions == assessMarketConditions_part011(data)
        scoreDifference == Abs(bullishScore - bearishScore)
        direction == BaseDirection(bullishScore, bearishScore, Pts(4))
    IN [engine |-> "performEnhancedAnalysis_part011",
        bullishScore |-> bullishScore,
        bearishScore |-> bearishScore,
        minimumScoreDifference |-> Pts(4),
        scoreDifference |-> scoreDifference,
        qualityScore |-> qualityScore,
        direction |-> direction,
        marketTrend |-> marketConditions.trend,
        riskLevel |-> marketConditions.riskLevel,
        signal |-> RiskGate(direction, marketConditions.riskLevel, scoreDifference),
        confidence |-> EnhancedConfidence(confidenceBoost, scoreDifference)]

(***************************************************************************)
(* AdvancedAIAnalyzer (part_009): cheat sheet, interactive chart, opinion  *)
(* and news, weights 4, 3, 2 and 1, with the trend confirmation.           *)
(***************************************************************************)
\* interactiveChart.technicalIndicators (signals, trend), chartData.volume
AdvancedChartSet ==
    {[present |-> FALSE, signals |-> <<>>, trend |-> "NONE", volume |-> 0],
     [present |-> TRUE, signals |-> <<"DOUBLE_BOTTOM">>, trend |-> "BULLISH",
      volume |-> 150000],
     [present |-> TRUE, signals |-> <<"DOUBLE_TOP">>, trend |-> "BEARISH",
      volume |-> 150000],
     [present |-> TRUE, signals |-> <<"FLAG">>, trend |-> "BEARISH", volume |-> 50000],
     [present |-> TRUE, signals |-> <<>>, trend |-> "BULLISH", volume |-> 50000],
     [present |-> TRUE, signals |-> <<>>, trend |-> "SIDEWAYS", volume |-> 50000]}

\* opinion.technicalIndicators (analystConsensus, recommendation),
\* opinion.sentiment in thousandths
OpinionSet ==
    {[present |-> FALSE, analystConsensus |-> "NEUTRAL", recommendation |-> "HOLD",
      sentiment |-> 500],
     [present |-> TRUE, analystConsensus |-> "BULLISH", recommendation |-> "BUY",
      sentiment |-> 700],
     [present |-> TRUE, analystConsensus |-> "BEARISH", recommendation |-> "SELL",
      sentiment |-> 300],
     [present |-> TRUE, analystConsensus |-> "NEUTRAL", recommendation |-> "HOLD",
      sentiment |-> 500]}

\* news.technicalIndicators.newsType, without high impact events
AdvancedNewsSet ==
    {[present |-> FALSE, newsType |-> "NEUTRAL"],
     [present |-> TRUE, newsType |-> "POSITIVE"],
     [present |-> TRUE, newsType |-> "NEGATIVE"]}

ContentData ==
    [cheatSheet : CheatSheetSet, interactiveChart : AdvancedChartSet,
     opinion : OpinionSet, news : AdvancedNewsSet]

\* analyzeCheatSheet of part_009
analyzeCheatSheet(cheatSheet) ==
    LET rec == RecommendationScores(cheatSheet.recommendation)
        sig == CheatSignalScores(cheatSheet.signals, TRUE)
        rsi == cheatSheet.rsi
        macd == cheatSheet.macd
    IN [bullishScore |-> rec.bullishScore + sig.bullishScore
            + (IF rsi = 0 THEN 0 ELSE IF rsi < 25 THEN 3 ELSE IF rsi < 35 THEN 2 ELSE 0)
            + (IF macd > 500 THEN 2 ELSE IF macd > 0 THEN 1 ELSE 0)
            + (IF cheatSheet.sentiment > 700 THEN 2
               ELSE IF cheatSheet.sentiment > 600 THEN 1 ELSE 0),
        bearishScore |-> rec.bearishScore + sig.bearishScore
            + (IF rsi = 0 \/ rsi < 35 THEN 0 ELSE IF rsi > 75 THEN 3
               ELSE IF rsi > 65 THEN 2 ELSE 0)
            + (IF macd >= 0 THEN 0 ELSE IF macd < -500 THEN 2 ELSE 1)
            + (IF cheatSheet.sentiment > 600 THEN 0
               ELSE IF cheatSheet.sentiment < 300 THEN 2
               ELSE IF cheatSheet.sentiment < 400 THEN 1 ELSE 0)]

RECURSIVE ChartPatternScores(_, _)
\* the forEach over indicators.signals of analyzeInteractiveChart
ChartPatternScores(indicatorSignals, trend) ==
    IF indicatorSignals = <<>> THEN [bullishScore |-> 0, bearishScore |-> 0]
    ELSE LET rest == ChartPatternScores(Tail(indicatorSignals), trend)
             pattern == Head(indicatorSignals)
         IN IF pattern \in {"DOUBLE_BOTTOM", "CUP_AND_HANDLE", "ASCENDING_TRIANGLE"}
            THEN [rest EXCEPT !.bullishScore = @ + 3]
            ELSE IF pattern \in {"DOUBLE_TOP", "HEAD_AND_SHOULDERS", "DESCENDING_TRIANGLE"}
            THEN [rest EXCEPT !.bearishScore = @ + 3]
            ELSE IF pattern \in {"FLAG", "PENNANT"} /\ trend = "BULLISH"
            THEN [rest EXCEPT !.bullishScore = @ + 2]
            ELSE IF pattern \in {"FLAG", "PENNANT"} /\ trend = "BEARISH"
            THEN [rest EXCEPT !.bearishScore = @ + 2]
            ELSE rest

\* analyzeInteractiveChart of part_009
analyzeInteractiveChart_part009(chart) ==
    LET patterns == ChartPatternScores(chart.signals, chart.trend)
        trended == [bullishScore |-> patterns.bullishScore
                        + (IF chart.trend = "BULLISH" THEN 2 ELSE 0),
                    bearishScore |-> patterns.bearishScore
                        + (IF chart.trend = "BEARISH" THEN 2 ELSE 0)]
    IN IF chart.volume > 100000 /\ trended.bullishScore > trended.bearishScore
       THEN [trended EXCEPT !.bullishScore = @ + 1]
       ELSE IF chart.volume > 100000 /\ trended.bearishScore > trended.bullishScore
       THEN [trended EXCEPT !.bearishScore = @ + 1]
       ELSE trended

\* analyzeOpinion
analyzeOpinion(opinion) ==
    [bullishScore |->
        (IF opinion.analystConsensus = "BULLISH" THEN 3 ELSE 0)
        + (IF opinion.recommendation = "BUY" THEN 2 ELSE 0)
        + (IF opinion.sentiment > 650 THEN 2 ELSE 0),
     bearishScore |->
        (IF opinion.analystConsensus = "BEARISH" THEN 3 ELSE 0)
        + (IF opinion.recommendation = "SELL" THEN 2 ELSE 0)
        + (IF opinion.sentiment > 650 THEN 0 ELSE IF opinion.sentiment < 350 THEN 2 ELSE 0)]

\* analyzeNews of part_009 for news without high impact events
analyzeNews_part009(news) ==
    [bullishScore |-> IF news.newsType = "POSITIVE" THEN 2 ELSE 0,
     bearishScore |-> IF news.newsType = "NEGATIVE" THEN 2 ELSE 0]

\* determineOverallTrend: the majority of the cheat sheet's and the chart's
\* trend
determineOverallTrend(contentData) ==
    LET trends == (IF contentData.cheatSheet.present
                   THEN <<contentData.cheatSheet.trend>> ELSE <<>>)
                  \o (IF contentData.interactiveChart.present
                      THEN <<contentData.interactiveChart.trend>> ELSE <<>>)
        bullishCount == Cardinality({i \in 1..Len(trends) : trends[i] = "BULLISH"})
        bearishCount == Cardinality({i \in 1..Len(trends) : trends[i] = "BEARISH"})
    IN IF bullishCount > bearishCount THEN "BULLISH"
       ELSE IF bearishCount > bullishCount THEN "BEARISH"
       ELSE "SIDEWAYS"

\* performAdvancedAnalysis
performAdvancedAnalysis(contentData) ==
    LET none == [bullishScore |-> 0, bearishScore |-> 0]
        cheat == IF contentData.cheatSheet.present
                 THEN analyzeCheatSheet(contentData.cheatSheet) ELSE none
        chart == IF contentData.interactiveChart.present
                 THEN analyzeInteractiveChart_part009(contentData.interactiveChart)
                 ELSE none
        opinion == IF contentData.opinion.present
                   THEN analyzeOpinion(contentData.opinion) ELSE none
        news == IF contentData.news.present
                THEN analyzeNews_part009(contentData.news) ELSE none
        bullishScore == Pts(cheat.bullishScore * 4 + chart.bullishScore * 3
                            + opinion.bullishScore * 2 + news.bullishScore)
        bearishScore == Pts(cheat.bearishScore * 4 + chart.bearishScore * 3
                            + opinion.bearishScore * 2 + news.bearishScore)
        confidenceBoost == (IF contentData.cheatSheet.present THEN 250000 ELSE 0)
                           + (IF contentData.interactiveChart.present THEN 200000 ELSE 0)
                           + (IF contentData.opinion.present THEN 150000 ELSE 0)
                           + (IF contentData.news.present THEN 100000 ELSE 0)
        qualityScore == (IF contentData.cheatSheet.present THEN 400 ELSE 0)
                        + (IF contentData.interactiveChart.present THEN 300 ELSE 0)
                        + (IF contentData.opinion.present THEN 200 ELSE 0)
                        + (IF contentData.news.present THEN 100 ELSE 0)
        scoreDifference == Abs(bullishScore - bearishScore)
        direction == BaseDirection(bullishScore, bearishScore, Pts(3))
        overallTrend == determineOverallTrend(contentData)
    IN [engine |-> "performAdvancedAnalysis",
        bullishScore |-> bullishScore,
        bearishScore |-> bearishScore,
        minimumScoreDifference |-> Pts(3),
        scoreDifference |-> scoreDifference,
        qualityScore |-> qualityScore,
        direction |-> direction,
        marketTrend |-> overallTrend,
        riskLevel |-> "NONE",
        signal |-> TrendVeto(direction, overallTrend),
        confidence |-> EnhancedConfidence(confidenceBoost, scoreDifference)]

(***************************************************************************)
(* The decision engines applied to drawn evidence.                         *)
(***************************************************************************)
\* the brain_data confidence_level the pre-news path finds stored
StoredConfidenceLevels == {600000, 700000, 850000}

\* the market data the pre-news path generates (the fields its decision reads
\* vary, the others are fixed)
PreNewsMarketData ==
    {md \in MarketDataSet : /\ md.supportDist = 40 /\ md.resistanceDist = 40
                            /\ md.volume = 40000 /\ md.reliability = 750
                            /\ md.newsImpact = "NONE"}

DecideInit ==
    /\ \/ decideIn \in [kind : {"enhanced"}, data : EnhancedEvidence]
       \/ decideIn \in [kind : {"cheatSheet"}, data : CheatSheetEvidence]
       \/ decideIn \in [kind : {"advanced"}, data : ContentData]
       \/ decideIn \in [kind : {"source"}, data : MarketDataSet]
       \/ decideIn \in [kind : {"preNews"}, data : PreNewsMarketData,
                        confidence_level : StoredConfidenceLevels]
    /\ decideOut = NoDecision

PerformEnhancedAnalysis ==
    /\ decideIn.kind = "enhanced" /\ decideOut = NoDecision
    /\ decideOut' = performEnhancedAnalysis(decideIn.data)
    /\ UNCHANGED <<decideIn, notDecide>>

PerformEnhancedAnalysis_part011 ==
    /\ decideIn.kind = "cheatSheet" /\ decideOut = NoDecision
    /\ decideOut' = performEnhancedAnalysis_part011(decideIn.data)
    /\ UNCHANGED <<decideIn, notDecide>>

PerformAdvancedAnalysis ==
    /\ decideIn.kind = "advanced" /\ decideOut = NoDecision
    /\ decideOut' = performAdvancedAnalysis(decideIn.data)
    /\ UNCHANGED <<decideIn, notDecide>>

\* analyzeSource: updateBrainData stores calculateEnhancedConfidence of the
\* market data, generateSignalFromAnalysis decides with it
DetermineEnhancedSignalType ==
    /\ decideIn.kind = "source" /\ decideOut = NoDecision
    /\ decideOut' = determineEnhancedSignalType(decideIn.data,
                        calculateEnhancedConfidence(decideIn.data))
    /\ UNCHANGED <<decideIn, notDecide>>

\* generatePreNewsSignals: getEnhancedMarketData, then createPreNewsSignal
\* decides with the stored brain data
DeterminePreNewsSignalType ==
    /\ decideIn.kind = "preNews" /\ decideOut = NoDecision
    /\ decideOut' = determinePreNewsSignalType(getEnhancedMarketData(decideIn.data),
                        decideIn.confidence_level)
    /\ UNCHANGED <<decideIn, notDecide>>

DecideNext ==
    \/ PerformEnhancedAnalysis
    \/ PerformEnhancedAnalysis_part011
    \/ PerformAdvancedAnalysis
    \/ DetermineEnhancedSignalType
    \/ DeterminePreNewsSignalType

InitDecide == DecideInit /\ LearnIdle /\ LadderIdle /\ EmitIdle /\ EngineIdle /\ LaterIdle

SpecDecide == InitDecide /\ [][DecideNext]_vars

(***************************************************************************)
(* Properties of the decision engines.                                     *)
(***************************************************************************)
\* C8: no engine decides BUY while the market trend it was handed is
\* BEARISH, nor SELL while it is BULLISH: a direction against the trend is
\* downgraded to HOLD.
C8_NoSignalAgainstTrend ==
    /\ decideOut.signal = "BUY" => decideOut.marketTrend # "BEARISH"
    /\ decideOut.signal = "SELL" => decideOut.marketTrend # "BULLISH"

\* C9: when the risk level is HIGH and the difference between the bullish
\* and the bearish score is below 6, the decision is HOLD.
C9_HighRiskNeedsGapOfSix ==
    (decideOut.riskLevel = "HIGH" /\ decideOut.scoreDifference < Pts(6))
        => decideOut.signal = "HOLD"

\* a direction outside HOLD was found under HIGH risk with a score difference
\* below 6, and the decision is HOLD
C9_Witness ==
    /\ decideOut.riskLevel = "HIGH"
    /\ decideOut.direction # "HOLD"
    /\ decideOut.scoreDifference < Pts(6)
    /\ decideOut.signal = "HOLD"

\* C10: before the trend veto and the risk gate the direction is BUY exactly
\* when bullish > bearish + minimum score difference, SELL exactly when
\* bearish > bullish + minimum score difference, and HOLD otherwise.
C10_DirectionRule ==
    decideOut.engine # "none" =>
        LET buy == decideOut.bullishScore >
                       decideOut.bearishScore + decideOut.minimumScoreDifference
            sell == decideOut.bearishScore >
                       decideOut.bullishScore + decideOut.minimumScoreDifference
        IN /\ decideOut.direction = "BUY" <=> buy
           /\ decideOut.direction = "SELL" <=> sell
           /\ decideOut.direction = "HOLD" <=> (~buy /\ ~sell)
           /\ ~(buy /\ sell)

\* AdvancedAIAnalyzer (minimum score difference 3) found BUY with the trend
\* BULLISH and decided BUY
C10_Witness ==
    /\ decideOut.engine = "performAdvancedAnalysis"
    /\ decideOut.minimumScoreDifference = Pts(3)
    /\ decideOut.marketTrend = "BULLISH"
    /\ decideOut.direction = "BUY"
    /\ decideOut.signal = "BUY"

(***************************************************************************)
(* Signal emission.  An emitted signal is kept with its symbol, direction, *)
(* confidence, trend and source; its ladder is that of the calculators     *)
(* above.                                                                  *)
(***************************************************************************)
MaxSignals == 2     \* signals the autonomous engine emits in one behaviour
MaxNewTrades == 1   \* trades the analyzer records in one behaviour

\* no signal: the null an analyzer returns
NoSignal ==
    [symbol |-> "none", signal |-> "HOLD", confidence |-> 0, trend |-> "SIDEWAYS",
     source |-> "none"]

(***************************************************************************)
(* AIAnalysisEngine (services/aiAnalysisEngine.ts), the analyzer behind    *)
(* generateRealTimeSignals.  Sub-scores are in halves.                     *)
(***************************************************************************)
\* The extracted Barchart pages; sentiment in thousandths; for the opinion
\* page the number of bullish and of bearish key phrases its text holds.
BarchartCheatSheets ==
    {[present |-> FALSE, text |-> FALSE, recommendation |-> "HOLD", signals |-> <<>>,
      sentiment |-> 500],
     [present |-> TRUE, text |-> TRUE, recommendation |-> "STRONG_BUY",
      signals |-> <<"BREAKOUT">>, sentiment |-> 700],
     [present |-> TRUE, text |-> TRUE, recommendation |-> "SELL",
      signals |-> <<"OVERBOUGHT">>, sentiment |-> 300],
     [present |-> TRUE, text |-> TRUE, recommendation |-> "HOLD", signals |-> <<>>,
      sentiment |-> 500]}
BarchartOpinions ==
    {[present |-> FALSE, text |-> FALSE, sentiment |-> 500,
      bullishPhrases |-> 0, bearishPhrases |-> 0],
     [present |-> TRUE, text |-> TRUE, sentiment |-> 700,
      bullishPhrases |-> 2, bearishPhrases |-> 0],
     [present |-> TRUE, text |-> TRUE, sentiment |-> 300,
      bullishPhrases |-> 0, bearishPhrases |-> 1]}
BarchartNews ==
    {[present |-> FALSE, text |-> FALSE, sentiment |-> 500],
     [present |-> TRUE, text |-> TRUE, sentiment |-> 600],
     [present |-> TRUE, text |-> TRUE, sentiment |-> 300]}
ForexCalendars ==
    {[present |-> FALSE, highImpactEvents |-> <<>>],
     [present |-> TRUE, highImpactEvents |-> <<"ECB", "INTEREST RATE">>]}
BarchartContent ==
    [cheatSheet : BarchartCheatSheets, opinion : BarchartOpinions,
     news : BarchartNews, calendar : ForexCalendars]

RECURSIVE CheatSheetSignalScores(_)
\* the forEach over indicators.signals of AIAnalysisEngine.analyzeCheatSheet
CheatSheetSignalScores(indicatorSignals) ==
    IF indicatorSignals = <<>> THEN [bullishScore |-> 0, bearishScore |-> 0]
    ELSE LET rest == CheatSheetSignalScores(Tail(indicatorSignals))
             signal == Head(indicatorSignals)
         IN IF signal \in {"BREAKOUT", "MOMENTUM", "OVERSOLD"}
            THEN [rest EXCEPT !.bullishScore = @ + 2]
            ELSE IF signal \in {"BREAKDOWN", "OVERBOUGHT"}
            THEN [rest EXCEPT !.bearishScore = @ + 2]
            ELSE rest

\* AIAnalysisEngine.analyzeCheatSheet, in halves
analyzeCheatSheet_ai(content) ==
    IF ~content.text THEN [bullishScore |-> 0, bearishScore |-> 0]
    ELSE LET sig == CheatSheetSignalScores(content.signals) IN
         [bullishScore |-> sig.bullishScore
             + (IF content.recommendation = "STRONG_BUY" THEN 8
                ELSE IF content.recommendation = "BUY" THEN 6 ELSE 0)
             + (IF content.sentiment > 600 THEN 4 ELSE 0),
          bearishScore |-> sig.bearishScore
             + (IF content.recommendation = "STRONG_SELL" THEN 8
                ELSE IF content.recommendation = "SELL" THEN 6 ELSE 0)
             + (IF content.sentiment < 400 THEN 4 ELSE 0)]

\* AIAnalysisEngine.analyzeOpinion, in halves
analyzeOpinion_ai(content) ==
    IF ~content.text THEN [bullishScore |-> 0, bearishScore |-> 0]
    ELSE [bullishScore |-> (IF content.sentiment > 650 THEN 4 ELSE 0)
                           + content.bullishPhrases,
          bearishScore |-> (IF content.sentiment < 350 THEN 4 ELSE 0)
                           + content.bearishPhrases]

\* AIAnalysisEngine.analyzeNews, in halves: the sentiment is amplified 1.2
\* times before it is compared
analyzeNews_ai(content) ==
    IF ~content.text THEN [bullishScore |-> 0, bearishScore |-> 0]
    ELSE [bullishScore |-> IF content.sentiment * 12 > 6000 THEN 3 ELSE 0,
          bearishScore |-> IF content.sentiment * 12 < 4000 THEN 3 ELSE 0]

RECURSIVE analyzeCalendar(_, _)
\* AIAnalysisEngine.analyzeCalendar, in halves
analyzeCalendar(events, symbol) ==
    IF events = <<>> THEN [bullishScore |-> 0, bearishScore |-> 0]
    ELSE LET rest == analyzeCalendar(Tail(events), symbol)
             event == Head(events)
         IN IF symbol = "XAUUSD"
            THEN [rest EXCEPT !.bullishScore =
                     @ + (IF event \in {"INTEREST RATE", "INFLATION"} THEN 1 ELSE 0)]
            ELSE IF event = "ECB" THEN [rest EXCEPT !.bullishScore = @ + 1]
            ELSE IF event \in {"NFP", "FOMC"} THEN [rest EXCEPT !.bearishScore = @ + 1]
            ELSE rest

\* AIAnalysisEngine.performAIAnalysis: weights 3, 2, 2 and 1, a minimum score
\* difference of 2, confidence 0.6 + boost + min(0.3, difference * 0.05)
\* capped at 0.95
performAIAnalysis(symbol, content) ==
    LET none == [bullishScore |-> 0, bearishScore |-> 0]
        cheat == IF content.cheatSheet.present
                 THEN analyzeCheatSheet_ai(content.cheatSheet) ELSE none
        opinion == IF content.opinion.present
                   THEN analyzeOpinion_ai(content.opinion) ELSE none
        news == IF content.news.present THEN analyzeNews_ai(content.news) ELSE none
        calendar == IF content.calendar.present
                    THEN analyzeCalendar(content.calendar.highImpactEvents, symbol)
                    ELSE none
        bullishScore == cheat.bullishScore * 6 + opinion.bullishScore * 4
                        + news.bullishScore * 4 + calendar.bullishScore * 2
        bearishScore == cheat.bearishScore * 6 + opinion.bearishScore * 4
                        + news.bearishScore * 4 + calendar.bearishScore * 2
        confidenceBoost == (IF content.cheatSheet.present THEN 200000 ELSE 0)
                           + (IF content.opinion.present THEN 150000 ELSE 0)
                           + (IF content.news.present THEN 100000 ELSE 0)
                           + (IF content.calendar.present THEN 50000 ELSE 0)
        signal == BaseDirection(bullishScore, bearishScore, Pts(2))
    IN [signal |-> signal,
        trend |-> IF signal = "BUY" THEN "BULLISH"
                  ELSE IF signal = "SELL" THEN "BEARISH" ELSE "SIDEWAYS",
        confidence |-> Min(950000, 600000 + confidenceBoost
                           + Min(300000, Abs(bullishScore - bearishScore) * 12500))]

\* AIAnalysisEngine.analyzeSymbol: the signal it returns, NoSignal for null
analyzeSymbol(symbol, content) ==
    LET analysis == performAIAnalysis(symbol, content) IN
    IF ~content.cheatSheet.present /\ ~content.opinion.present /\ ~content.news.present
    THEN NoSignal
    ELSE IF analysis.signal = "HOLD" THEN NoSignal
    ELSE [symbol |-> symbol, signal |-> analysis.signal,
          confidence |-> analysis.confidence, trend |-> analysis.trend,
          source |-> "Real Barchart AI Analysis"]

\* createPreNewsSignal: the signal it returns, NoSignal for null
createPreNewsSignal(symbol, marketData, confidence_level) ==
    LET decision == determinePreNewsSignalType(marketData, confidence_level) IN
    IF decision.signal = "HOLD" THEN NoSignal
    ELSE [symbol |-> symbol, signal |-> decision.signal,
          confidence |-> decision.confidence, trend |-> marketData.trend,
          source |-> "Pre-News AI Analysis"]

(***************************************************************************)
(* EnhancedAIAnalyzer.analyzeSymbolWithLearning.  It imports its learning  *)
(* engine from './learningEngine', a file the repository does not hold;    *)
(* the two classes with that interface are LearningEngine and              *)
(* EnhancedLearningEngine, and `engine` says which one is linked.          *)
(***************************************************************************)
\* getRealCurrentMarketPrice: the fallback prices 2650 and 1.0850, in points
FallbackPrice(symbol) == IF symbol = "XAUUSD" THEN 265000 ELSE 10850

\* Levels of this calculator are exact in eighths of a point.  A level that
\* ends in half a point is a decimal tie, and toFixed rounds the double that
\* holds it: these are the ties, among the levels of the two fallback
\* prices, whose double lies below the tie; the others lie on it or above.
Eighth == 8
DoubleBelowTie == {10524, 10741, 10958, 11392}

\* Number(x.toFixed(decimals)) of a level given in eighths of a point
toFixedEighths(x) ==
    IF x % Eighth = Eighth \div 2 /\ (x \div Eighth) \in DoubleBelowTie
    THEN x \div Eighth
    ELSE (x + Eighth \div 2) \div Eighth

\* EnhancedAIAnalyzer.calculatePreciseRiskLevels: 1% risk, reduced by a
\* quarter under HIGH risk, raised by a quarter when volatility > 0.04
calculatePreciseRiskLevels_enhanced(signal, currentPrice, marketConditions) ==
    LET entryPrice == currentPrice * Eighth
        riskAmount == (currentPrice * Eighth) \div 100
        adjustedRisk == IF marketConditions.riskLevel = "HIGH"
                        THEN (riskAmount * 3) \div 4
                        ELSE IF marketConditions.volatility > 400
                        THEN (riskAmount * 5) \div 4
                        ELSE riskAmount
        dir == IF signal = "BUY" THEN 1 ELSE IF signal = "SELL" THEN -1 ELSE 0
    IN [calc |-> "calculatePreciseRiskLevels_enhanced", signal |-> signal,
        entryPrice |-> toFixedEighths(entryPrice),
        stopLoss |-> toFixedEighths(entryPrice - dir * adjustedRisk),
        takeProfit1 |-> toFixedEighths(entryPrice + dir * (adjustedRisk * 2)),
        takeProfit2 |-> toFixedEighths(entryPrice + dir * (adjustedRisk * 3)),
        takeProfit3 |-> toFixedEighths(entryPrice + dir * (adjustedRisk * 4))]

\* The reasoningFactors of performEnhancedAnalysis whose text is fixed (the
\* other factors quote live figures: idea counts, percentages, event titles).
EnhancedReasoningFactors(data, analysis) ==
    LET tv == data.tradingViewSentiment
        news == data.newsAnalysis
        dxy == data.dxyCorrelation
        chart == data.interactiveChart
    IN (IF tv.present /\ tv.overallSentiment = "NEUTRAL"
        THEN <<"TradingView: Mixed sentiment from experts">> ELSE <<>>)
       \o (IF news.present /\ news.marketImpact = "POSITIVE"
           THEN <<"Positive news sentiment">>
           ELSE IF news.present /\ news.marketImpact = "NEGATIVE"
           THEN <<"Negative news sentiment">> ELSE <<>>)
       \o (IF dxy.present /\ dxy.expectedImpact = "POSITIVE"
           THEN <<IF data.symbol = "XAUUSD"
                  THEN "DXY correlation supports XAUUSD strength"
                  ELSE "DXY correlation supports EURUSD strength">>
           ELSE IF dxy.present /\ dxy.expectedImpact = "NEGATIVE"
           THEN <<IF data.symbol = "XAUUSD"
                  THEN "DXY correlation suggests XAUUSD weakness"
                  ELSE "DXY correlation suggests EURUSD weakness">>
           ELSE <<>>)
       \o (IF chart.present /\ chart.trend = "BULLISH" THEN <<"Chart trend: BULLISH">>
           ELSE IF chart.present /\ chart.trend = "BEARISH"
           THEN <<"Chart trend: BEARISH">> ELSE <<>>)
       \o (IF chart.present /\ chart.momentum = "STRONG"
           THEN <<"Strong momentum detected">> ELSE <<>>)
       \o (IF analysis.direction = "BUY"
           THEN <<"Strong bullish consensus across multiple sources">>
           ELSE IF analysis.direction = "SELL"
           THEN <<"Strong bearish consensus across multiple sources">> ELSE <<>>)
       \o (IF analysis.direction # analysis.signal
           THEN <<"High risk conditions require stronger conviction">> ELSE <<>>)

\* what analyzeSymbolWithLearning hands to recordTrade
AnalyzerTrade(data, analysis, adjustedConfidence) ==
    LET marketConditions == assessMarketConditions(data)
        riskLevels == calculatePreciseRiskLevels_enhanced(analysis.signal,
                          FallbackPrice(data.symbol), marketConditions)
    IN [symbol |-> data.symbol, signalType |-> analysis.signal,
        entryPrice |-> riskLevels.entryPrice, stopLoss |-> riskLevels.stopLoss,
        takeProfit1 |-> riskLevels.takeProfit1, takeProfit2 |-> riskLevels.takeProfit2,
        takeProfit3 |-> riskLevels.takeProfit3, confidence |-> adjustedConfidence,
        reasoningFactors |-> EnhancedReasoningFactors(data, analysis),
        marketConditions |-> marketConditions]

\* analyzeSymbolWithLearning: what it computes and whether it returns a
\* signal and records a trade.  It returns null outside market hours, when
\* neither TradingView nor the news could be extracted, and when the
\* analysis says HOLD or its quality is below 0.7; the result of
\* applyLearningToSignal is read for adjustedConfidence and recommendations.
analyzeSymbolWithLearning(engine, m, rules, marketOpen, data) ==
    LET analysis == performEnhancedAnalysis(data)
        extracted == data.tradingViewSentiment.present \/ data.newsAnalysis.present
        passed == /\ marketOpen /\ extracted
                  /\ analysis.signal # "HOLD" /\ analysis.qualityScore >= 700
        learningResult ==
            IF engine = "EnhancedLearningEngine"
            THEN applyLearningToSignal(m, rules, data.symbol, analysis.confidence,
                                       EnhancedReasoningFactors(data, analysis))
            ELSE applyLearningToSignal_LearningEngine(m, rules, data.symbol,
                     analysis.confidence, EnhancedReasoningFactors(data, analysis))
    IN IF ~marketOpen \/ ~extracted
       THEN [NoAnalysis EXCEPT !.ran = TRUE, !.symbol = data.symbol]
       ELSE IF ~passed
       THEN [NoAnalysis EXCEPT !.ran = TRUE, !.symbol = data.symbol,
                               !.signal = analysis.signal,
                               !.qualityScore = analysis.qualityScore,
                               !.confidence = analysis.confidence]
       ELSE [ran |-> TRUE, symbol |-> data.symbol, signal |-> analysis.signal,
             qualityScore |-> analysis.qualityScore,
             confidence |-> analysis.confidence,
             adjustedConfidence |-> learningResult.adjustedConfidence,
             shouldAvoid |-> learningResult.shouldAvoid,
             returned |-> TRUE, recorded |-> TRUE]

(***************************************************************************)
(* The emission state machine: the analyzer with learning, the five-minute *)
(* rule update, and the two generators of AutonomousTradingEngine that     *)
(* save a signal and add it to the in-memory list.                         *)
(***************************************************************************)
\* the evidence the analyzer is run on
AnalyzerEvidence ==
    {d \in EnhancedEvidence :
        /\ ~d.brain.present
        /\ d.tradingViewSentiment.present => d.tradingViewSentiment.confidence = 800
        /\ d.dxyCorrelation.present => /\ d.dxyCorrelation.correlationStrength = "STRONG"
                                       /\ d.dxyCorrelation.expectedImpact = "POSITIVE"
        /\ ~d.interactiveChart.present
        /\ d.newsAnalysis.present => /\ Len(d.newsAnalysis.highImpactEvents) < 2
                                     /\ d.newsAnalysis.mediumImpactEvents = 0
                                     /\ d.newsAnalysis.marketImpact = "POSITIVE"}

\* the pages generateRealTimeSignals is run on
RealTimeContent ==
    {c \in BarchartContent :
        /\ ~c.calendar.present
        /\ ~c.opinion.present
        /\ c.cheatSheet.present => c.cheatSheet.recommendation # "SELL"
        /\ c.news.present => ~c.cheatSheet.present /\ c.news.sentiment = 600}

\* the market data generatePreNewsSignals is run on
PreNewsEvidence ==
    {md \in PreNewsMarketData :
        /\ md.volatility = 150
        /\ \/ md.trend = "BULLISH" /\ md.rsi = 28 /\ md.macd = 1000
           \/ md.trend = "BEARISH" /\ md.rsi = 72 /\ md.macd = -1000}

\* a history of this session: three analyzer trades on gold, all won at the
\* first target
BullishGold ==
    [symbol |-> "XAUUSD",
     tradingViewSentiment |-> [present |-> TRUE, overallSentiment |-> "BULLISH",
                               confidence |-> 800, priceChangePercent |-> 1500],
     newsAnalysis |-> [present |-> TRUE, highImpactEvents |-> <<>>,
                       mediumImpactEvents |-> 0, marketImpact |-> "POSITIVE"],
     dxyCorrelation |-> [present |-> TRUE, expectedImpact |-> "POSITIVE",
                         correlationStrength |-> "STRONG"],
     interactiveChart |-> [present |-> FALSE, tradingSignal |-> "HOLD",
                           trend |-> "SIDEWAYS", momentum |-> "WEAK",
                           volatility |-> "LOW"],
     brain |-> [present |-> FALSE, hasStats |-> FALSE, confidence |-> 0,
                successfulTrades |-> 0, failedTrades |-> 0]]

SessionTrade(signalId) ==
    LET trade == NewTrade(signalId, "XAUUSD",
                     AnalyzerTrade(BullishGold, performEnhancedAnalysis(BullishGold),
                                   950000))
    IN ResolvedTrade(trade, "WIN", trade.takeProfit1)

SessionHistory == [i \in 1..3 |-> SessionTrade(i)]

\* loadBrainData: the stored confidence level of each symbol, if it has a row
BrainTables ==
    {[s \in Symbols |-> IF s = "XAUUSD" THEN 850000 ELSE NoBrain],
     [s \in Symbols |-> IF s = "XAUUSD" THEN NoBrain ELSE 700000]}

\* a full list that keeps the signals it has
keepFirst(list, signal) ==
    IF Len(list) >= 100 THEN list ELSE <<signal>> \o list

\* saveAndAddSignal: the signal is put first and the list is cut to 100
saveAndAddSignal(list, signal) ==
    LET added == <<signal>> \o list
    IN IF Len(added) > 100 THEN SubSeq(added, 1, 100) ELSE added

\* the trades recorded since the engine was constructed
NewTrades(history) ==
    Cardinality({i \in 1..Len(history) : history[i].outcome = "PENDING"})

\* The state after both constructors have run: the learning engine has
\* either loaded the stored trades and recomputed its metrics, or carries the
\* history of this session; the trading engine has loaded its brain data.
InitEmit ==
    /\ \/ /\ linkedEngine = "EnhancedLearningEngine"
          /\ learningRules = {}
          /\ \/ \E rows \in StoredRows :
                  /\ tradeHistory = loadLearningData(rows)
                  /\ metrics = updateMetrics(InitMetrics, tradeHistory)
             \/ /\ tradeHistory = SessionHistory
                /\ metrics = generateImprovementSuggestions(
                                 updateMetrics(InitMetrics, SessionHistory))
       \/ /\ linkedEngine = "LearningEngine"
          /\ learningRules \in StoredRules
          /\ tradeHistory \in {<<>>, SessionHistory}
          /\ metrics = updateMetrics_LearningEngine(tradeHistory)
    /\ tickResolves = [i \in 1..Len(tradeHistory) |-> 0]
    /\ priceCache = [s \in Symbols |-> NoPrice]
    /\ tick = [k \in Ticks |-> IdleTick]
    /\ extSaving = 0
    /\ brainData \in BrainTables
    /\ signals = <<>>
    /\ store = <<>>
    /\ lastAnalysis = NoAnalysis
    /\ LadderIdle
    /\ DecideIdle
    /\ EngineIdle
    /\ LaterIdle

\* analyzeSymbolWithLearning, with recordTrade when it returns a signal; the
\* analyzer runs until it has recorded MaxNewTrades trades
AnalyzeSymbolWithLearning(marketOpen, data) ==
    /\ NewTrades(tradeHistory) < MaxNewTrades
    /\ \E out \in {analyzeSymbolWithLearning(linkedEngine, metrics, learningRules,
                                             marketOpen, data)} :
       LET in == AnalyzerTrade(data, performEnhancedAnalysis(data),
                               out.adjustedConfidence)
       IN
       /\ lastAnalysis' = out
       /\ IF out.recorded
          THEN /\ tradeHistory' = Append(tradeHistory,
                                     NewTrade(Len(tradeHistory) + 1, data.symbol, in))
               /\ tickResolves' = Append(tickResolves, 0)
          ELSE UNCHANGED <<tradeHistory, tickResolves>>
       /\ UNCHANGED <<metrics, priceCache, tick, extSaving, laterVars, ladderVars, decideVars,
                      engineVars, signals, store, brainData, learningRules,
                      linkedEngine>>

\* the five-minute interval of EnhancedLearningEngine.startContinuousLearning
UpdateLearningRules ==
    /\ linkedEngine = "EnhancedLearningEngine"
    /\ learningRules' = updateLearningRules(learningRules, tradeHistory)
    /\ UNCHANGED <<laterVars, learnVars, ladderVars, decideVars, engineVars, signals, store,
                   brainData, lastAnalysis, linkedEngine>>

\* generateRealTimeSignals for one symbol: analyzeSymbol, then
\* saveAndAddSignal when it returned a signal
GenerateRealTimeSignal(symbol, content) ==
    \E signal \in {analyzeSymbol(symbol, content)} :
       /\ signal # NoSignal
       /\ Len(signals) < MaxSignals
       /\ store' = saveAndAddSignal(store, signal)
       /\ signals' = saveAndAddSignal(signals, signal)
       /\ UNCHANGED <<laterVars, learnVars, ladderVars, decideVars, engineVars, brainData,
                      lastAnalysis, learningRules, linkedEngine>>

\* generatePreNewsSignals for one affected symbol that has brain data
GeneratePreNewsSignal(symbol, marketData) ==
    \E signal \in {createPreNewsSignal(symbol, getEnhancedMarketData(marketData),
                                       brainData[symbol])} :
       /\ brainData[symbol] # NoBrain
       /\ signal # NoSignal
       /\ Len(signals) < MaxSignals
       /\ store' = saveAndAddSignal(store, signal)
       /\ signals' = saveAndAddSignal(signals, signal)
       /\ UNCHANGED <<laterVars, learnVars, ladderVars, decideVars, engineVars, brainData,
                      lastAnalysis, learningRules, linkedEngine>>

EmitNext ==
    \/ \E marketOpen \in BOOLEAN, data \in AnalyzerEvidence :
          AnalyzeSymbolWithLearning(marketOpen, data)
    \/ UpdateLearningRules
    \/ \E symbol \in Symbols, content \in RealTimeContent :
          GenerateRealTimeSignal(symbol, content)
    \/ \E symbol \in Symbols, marketData \in PreNewsEvidence :
          GeneratePreNewsSignal(symbol, marketData)

SpecEmit == InitEmit /\ [][EmitNext]_vars

(***************************************************************************)
(* The constructor of EnhancedLearningEngine calls loadLearningData and    *)
(* does not wait for it: the engine is handed out while getLearningData is *)
(* still reading the stored rows.  The first outcome check comes 30        *)
(* seconds after the construction; until the load returns the engine is    *)
(* called by recordTrade and the price service feeds its cache.            *)
(***************************************************************************)
\* loadLearningData: getLearningData has returned the rows that were stored
\* when the constructor asked for them (it catches its own errors and then
\* returns the rows of localStorage); the history is assigned and the
\* metrics are recomputed
LoadLearningDataReturn(rows) ==
    /\ loading
    /\ loading' = FALSE
    /\ tradeHistory' = loadLearningData(rows)
    /\ metrics' = updateMetrics(metrics, loadLearningData(rows))
    /\ tickResolves' = [i \in 1..Len(rows) |-> 0]
    /\ UNCHANGED <<priceCache, tick, extSaving, analyses, emitted, monitorVars, storeVars,
                   applyVars, ladderVars, decideVars, emitVars, engineVars>>

LoadNext ==
    \/ \E in \in TradeInputs : RecordTrade(in.symbol, in)
    \/ \E symbol \in Symbols, price \in Prices : UpdatePrice(symbol, price)
    \/ \E rows \in StoredRows : LoadLearningDataReturn(rows)

\* the constructor has returned
InitLoad ==
    /\ LearnInit
    /\ loading = TRUE
    /\ analyses = <<>>
    /\ emitted = 0
    /\ LadderIdle
    /\ DecideIdle
    /\ EmitIdle
    /\ EngineIdle
    /\ MonitorIdle
    /\ StoreIdle
    /\ ApplyIdle

SpecLoad == InitLoad /\ [][LoadNext]_vars

\* the trade is in the history: the record recordTrade pushed for it, or a
\* later state of that record
C27_InHistory(trade, history) ==
    \E j \in 1..Len(history) :
        /\ history[j].signalId = trade.signalId
        /\ history[j].symbol = trade.symbol
        /\ history[j].entryPrice = trade.entryPrice

\* C27: a trade recorded with recordTrade stays in the trade history; it is
\* not dropped when the initial load of the stored learning data completes
\* after the trade was recorded.
C27_RecordedTradeStays ==
    [][\A i \in 1..Len(tradeHistory) :
          C27_InHistory(tradeHistory[i], tradeHistory')]_vars

(***************************************************************************)
(* The older AutonomousTradingEngine (part_007): performMonitoringCycle    *)
(* starts analyzeSource for every monitored page at once; each call        *)
(* scrapes market data, updates the brain data of the page's symbol, waits *)
(* for saveBrainData and then decides with the brain data it finds.        *)
(***************************************************************************)
MaxSources == 2   \* analyzeSource calls that wait for saveBrainData at a time

\* the market data scrapeMarketData generates: the rsi is between 30 and 70
\* and the trend is never SIDEWAYS
ScrapedMarketData ==
    {md \in MarketDataSet :
        /\ md.rsi \in {45, 55} /\ md.trend # "SIDEWAYS"
        /\ md.macd \in {-1000, 1000} /\ md.volume = 40000 /\ md.volatility = 150
        /\ md.supportDist = 40 /\ md.resistanceDist = 80
        /\ md.reliability = 750 /\ md.newsImpact = "NONE"}

\* calculateConfidence of the older engine
calculateConfidence(marketData) ==
    LET confidence == 500000
            + (IF marketData.rsi < 30 \/ marketData.rsi > 70 THEN 200000
               ELSE IF marketData.rsi > 40 /\ marketData.rsi < 60 THEN 100000 ELSE 0)
            + (IF Abs(marketData.macd) > 500 THEN 150000 ELSE 0)
            + (IF marketData.volume > 50000 THEN 100000 ELSE 0)
            + (IF marketData.trend = "BULLISH" /\ marketData.rsi > 50 THEN 50000 ELSE 0)
            + (IF marketData.trend = "BEARISH" /\ marketData.rsi < 50 THEN 50000 ELSE 0)
    IN Min(950000, Max(300000, confidence))

\* determineSignalType of the older engine; pricePosition is
\* (currentPrice - support) / (resistance - support)
determineSignalType(marketData, confidence_level) ==
    LET range == marketData.supportDist + marketData.resistanceDist
        bullishScore ==
            (IF marketData.rsi < 35 THEN 2
             ELSE IF marketData.rsi > 65 THEN 0
             ELSE IF marketData.rsi > 50 THEN 1 ELSE 0)
            + (IF marketData.macd > 0 THEN 1 ELSE 0)
            + (IF marketData.supportDist * 10 > 7 * range THEN 1 ELSE 0)
            + (IF marketData.trend = "BULLISH" THEN 1 ELSE 0)
        bearishScore ==
            (IF marketData.rsi < 35 THEN 0
             ELSE IF marketData.rsi > 65 THEN 2
             ELSE IF marketData.rsi > 50 THEN 0 ELSE 1)
            + (IF marketData.macd > 0 THEN 0 ELSE 1)
            + (IF marketData.supportDist * 10 > 7 * range THEN 0
               ELSE IF marketData.supportDist * 10 < 3 * range THEN 1 ELSE 0)
            + (IF marketData.trend = "BEARISH" THEN 1 ELSE 0)
    IN IF confidence_level < 600000 THEN "HOLD"
       ELSE IF bullishScore > bearishScore + 1 THEN "BUY"
       ELSE IF bearishScore > bullishScore + 1 THEN "SELL"
       ELSE "HOLD"

\* analyzeSource: scrapeMarketData has returned; updateBrainData sets the
\* brain data of the symbol and waits for saveBrainData
UpdateBrainData(symbol, marketData) ==
    /\ Len(analyses) < MaxSources
    /\ brainData' = [brainData EXCEPT ![symbol] = calculateConfidence(marketData)]
    /\ analyses' = Append(analyses, [symbol |-> symbol, marketData |-> marketData])
    /\ UNCHANGED <<signals, store, lastAnalysis, learningRules, linkedEngine, loading,
                   emitted, monitorVars, storeVars, applyVars, learnVars, ladderVars, decideVars,
                   engineVars>>

\* analyzeSource: saveBrainData has returned for call k;
\* generateSignalFromAnalysis decides with the brain data of the symbol as
\* it is now, saves the signal and puts it first
GenerateSignalFromAnalysis(k) ==
    /\ k \in DOMAIN analyses
    /\ LET symbol == analyses[k].symbol
           marketData == analyses[k].marketData
           signalType == determineSignalType(marketData, brainData[symbol])
           signal == [symbol |-> symbol, signal |-> signalType,
                      confidence |-> brainData[symbol], trend |-> marketData.trend,
                      source |-> "Autonomous AI Engine"]
       IN IF brainData[symbol] = NoBrain \/ signalType = "HOLD"
          THEN UNCHANGED <<signals, store>>
          ELSE /\ Len(signals) < MaxSignals
               /\ store' = saveAndAddSignal(store, signal)
               /\ signals' = saveAndAddSignal(signals, signal)
    /\ analyses' = [i \in 1..(Len(analyses) - 1) |->
                       IF i < k THEN analyses[i] ELSE analyses[i + 1]]
    /\ UNCHANGED <<brainData, lastAnalysis, learningRules, linkedEngine, loading,
                   emitted, monitorVars, storeVars, applyVars, learnVars, ladderVars, decideVars,
                   engineVars>>

SourceNext ==
    \/ \E symbol \in Symbols, marketData \in ScrapedMarketData :
          UpdateBrainData(symbol, marketData)
    \/ \E k \in 1..MaxSources : GenerateSignalFromAnalysis(k)

\* initializeAutonomousMonitoring has loaded the brain data and started the
\* first monitoring cycle
InitSource ==
    /\ brainData \in BrainTables \cup {[s \in Symbols |-> NoBrain]}
    /\ signals = <<>>
    /\ store = <<>>
    /\ lastAnalysis = NoAnalysis
    /\ learningRules = {}
    /\ linkedEngine = "EnhancedLearningEngine"
    /\ PendingIdle
    /\ LearnIdle
    /\ LadderIdle
    /\ DecideIdle
    /\ EngineIdle
    /\ MonitorIdle
    /\ StoreIdle
    /\ ApplyIdle

SpecSource == InitSource /\ [][SourceNext]_vars

\* C25: the decision path (evidence gathering, deciding, signal emission)
\* reads the per-symbol brain data and the learning rules and never
\* modifies them.
C25_DecisionPathReadsOnly ==
    [][brainData' = brainData /\ learningRules' = learningRules /\ metrics' = metrics]_vars

(***************************************************************************)
(* TradingEngine (the class in supabase/migrations/20250922064720): a      *)
(* timer chain that generates one signal per callback.  Scores and the     *)
(* random draws are in thousandths, confidences in millionths.             *)
(***************************************************************************)
MaxEngineSignals == 2   \* signals TradingEngine generates in one behaviour
MaxTimers == 2          \* timer chains pending at once

EngineSymbols == {"BTC/USD", "ETH/USD", "TSLA", "AAPL", "GOOGL", "MSFT", "AMZN"}

\* a learning session, by the numbers of its insights that contain
\* 'Bullish' and 'Bearish'
BullishSession == [bullishCount |-> 2, bearishCount |-> 0]
BearishSession == [bullishCount |-> 0, bearishCount |-> 1]
MixedSession == [bullishCount |-> 1, bearishCount |-> 1]
SessionLists ==
    {<<>>, <<BullishSession>>, <<MixedSession, BearishSession>>,
     [i \in 1..3 |-> BearishSession], [i \in 1..6 |-> BullishSession]}

\* performTechnicalAnalysis: the mean of five random draws
TechnicalScores == {100, 500, 900}
\* Math.random()
RandomDraws == {0, 999}

RECURSIVE SessionSentiment(_)
\* the forEach of analyzeSentiment: +0.1 for a session with more bullish
\* than bearish insights, -0.1 for the opposite
SessionSentiment(sessions) ==
    IF sessions = <<>> THEN 0
    ELSE SessionSentiment(Tail(sessions))
         + (IF Head(sessions).bullishCount > Head(sessions).bearishCount THEN 100
            ELSE IF Head(sessions).bearishCount > Head(sessions).bullishCount
            THEN -100 ELSE 0)

\* analyzeSentiment: over the last five sessions, clamped to [0, 1]
analyzeSentiment(sessions) ==
    IF Len(sessions) = 0 THEN 500
    ELSE LET recentSessions == SubSeq(sessions, Max(1, Len(sessions) - 4),
                                      Len(sessions))
         IN Max(0, Min(1000, 500 + SessionSentiment(recentSessions)))

\* generateTradingSignal: the signal it builds.  twiceCombined is twice the
\* combinedScore, so that the halves stay whole.
generateTradingSignal(symbol, sessions, technicalScore, random) ==
    LET sentimentScore == analyzeSentiment(sessions)
        twiceCombined == sentimentScore + technicalScore
    IN IF twiceCombined > 1400
       THEN [symbol |-> symbol, signal |-> "BUY",
             confidence |-> Min(950000, twiceCombined * 500 + random * 100),
             source |-> "AI Learning Engine"]
       ELSE IF twiceCombined < 600
       THEN [symbol |-> symbol, signal |-> "SELL",
             confidence |-> Min(950000, (2000 - twiceCombined) * 500 + random * 100),
             source |-> "AI Learning Engine"]
       ELSE [symbol |-> symbol, signal |-> "HOLD",
             confidence |-> 600000 + random * 200,
             source |-> "AI Learning Engine"]

\* startAutonomousTrading: generatePeriodicSignals sets the first timer
StartAutonomousTrading ==
    /\ ~isGeneratingSignals
    /\ timers < MaxTimers
    /\ isGeneratingSignals' = TRUE
    /\ timers' = timers + 1
    /\ UNCHANGED <<engineSignals, learningData, laterVars, learnVars, ladderVars, decideVars,
                   emitVars>>

\* stopAutonomousTrading: a timer already set still fires
StopAutonomousTrading ==
    /\ isGeneratingSignals
    /\ isGeneratingSignals' = FALSE
    /\ UNCHANGED <<engineSignals, learningData, timers, laterVars, learnVars, ladderVars,
                   decideVars, emitVars>>

\* The timer callback: generateTradingSignal puts the new signal first and
\* cuts the list to 50, then generatePeriodicSignals sets the next timer if
\* the engine is still generating.
TimerFires(symbol, technicalScore, random) ==
    /\ timers > 0
    /\ Len(engineSignals) < MaxEngineSignals
    /\ LET added == <<generateTradingSignal(symbol, learningData, technicalScore,
                                            random)>> \o engineSignals
       IN engineSignals' = IF Len(added) > 50 THEN SubSeq(added, 1, 50) ELSE added
    /\ timers' = IF isGeneratingSignals THEN timers ELSE timers - 1
    /\ UNCHANGED <<learningData, isGeneratingSignals, laterVars, learnVars, ladderVars,
                   decideVars, emitVars>>

\* updateLearningData
UpdateLearningData(sessions) ==
    /\ learningData # sessions
    /\ learningData' = sessions
    /\ UNCHANGED <<engineSignals, isGeneratingSignals, timers, laterVars, learnVars, ladderVars,
                   decideVars, emitVars>>

EngineNext ==
    \/ StartAutonomousTrading
    \/ StopAutonomousTrading
    \/ \E symbol \in EngineSymbols, technicalScore \in TechnicalScores,
          random \in RandomDraws : TimerFires(symbol, technicalScore, random)
    \/ \E sessions \in SessionLists : UpdateLearningData(sessions)

InitEngine == LearnIdle /\ LadderIdle /\ DecideIdle /\ EmitIdle /\ EngineIdle /\ LaterIdle

SpecEngine == InitEngine /\ [][EngineNext]_vars

(***************************************************************************)
(* The signal lists when they are long.  An engine that has been running   *)
(* holds the signals of its earlier cycles; OlderSignal(age) is the one    *)
(* put on the list `age` emissions ago.                                    *)
(***************************************************************************)
MaxEmitted == 4   \* signals put on the two lists in one behaviour

OlderSignal(age) ==
    [symbol |-> "XAUUSD", signal |-> "BUY", confidence |-> 700000 - age * 1000,
     trend |-> "BULLISH", source |-> "Real-time Barchart AI Analysis"]

OlderEngineSignal(age) ==
    [symbol |-> "TSLA", signal |-> "HOLD", confidence |-> 700000 - age * 1000,
     source |-> "AI Learning Engine"]

\* saveAndAddSignal of a running AutonomousTradingEngine
SaveAndAddSignal(symbol, content) ==
    \E signal \in {analyzeSymbol(symbol, content)} :
       /\ signal # NoSignal
       /\ emitted < MaxEmitted
       /\ emitted' = emitted + 1
       /\ store' = saveAndAddSignal(store, signal)
       /\ signals' = saveAndAddSignal(signals, signal)
       /\ UNCHANGED <<brainData, lastAnalysis, learningRules, linkedEngine, analyses,
                      loading, monitorVars, storeVars, applyVars, learnVars, ladderVars,
                      decideVars, engineVars>>

\* The timer callback of a running TradingEngine: generateTradingSignal puts
\* the new signal first and cuts the list to 50, generatePeriodicSignals
\* sets the next timer.
GenerateTradingSignal(symbol, technicalScore, random) ==
    /\ timers > 0 /\ isGeneratingSignals
    /\ emitted < MaxEmitted
    /\ emitted' = emitted + 1
    /\ LET added == <<generateTradingSignal(symbol, learningData, technicalScore,
                                            random)>> \o engineSignals
       IN engineSignals' = IF Len(added) > 50 THEN SubSeq(added, 1, 50) ELSE added
    /\ UNCHANGED <<learningData, isGeneratingSignals, timers, analyses, loading,
                   monitorVars, storeVars, applyVars, learnVars, ladderVars, decideVars,
                   emitVars>>

ListNext ==
    \/ \E symbol \in Symbols, content \in RealTimeContent : SaveAndAddSignal(symbol, content)
    \/ \E symbol \in {"TSLA", "AAPL"}, technicalScore \in TechnicalScores :
          GenerateTradingSignal(symbol, technicalScore, 0)

\* both engines have been running: their lists hold the signals of earlier
\* cycles, up to the bounds
InitList ==
    /\ \E n \in {0, 1, 99, 100} : signals = [i \in 1..n |-> OlderSignal(i)]
    /\ \E n \in {0, 49, 50} : engineSignals = [i \in 1..n |-> OlderEngineSignal(i)]
    /\ store = <<>>
    /\ brainData = [s \in Symbols |-> NoBrain]
    /\ lastAnalysis = NoAnalysis
    /\ learningRules = {}
    /\ linkedEngine = "EnhancedLearningEngine"
    /\ learningData = <<>>
    /\ isGeneratingSignals = TRUE
    /\ timers = 1
    /\ emitted = 0 /\ analyses = <<>> /\ loading = FALSE
    /\ LearnIdle
    /\ LadderIdle
    /\ DecideIdle
    /\ MonitorIdle
    /\ StoreIdle
    /\ ApplyIdle

SpecList == InitList /\ [][ListNext]_vars

\* the list after one more signal: the new one is first, the others follow in
\* their order, and beyond the bound the last ones are gone
C30_NewestFirst(old, new, bound) ==
    /\ Len(new) = Min(Len(old) + 1, bound)
    /\ \A i \in 2..Len(new) : new[i] = old[i - 1]

\* C30: after any sequence of emitted signals the signal list holds at most
\* 100 signals (50 in TradingEngine), newest first, and beyond the bound it
\* is the oldest signals that are dropped.
C30_ListBounded ==
    [][/\ Len(signals') <= 100 /\ Len(engineSignals') <= 50
       /\ emitted' # emitted =>
             \/ UNCHANGED engineSignals /\ C30_NewestFirst(signals, signals', 100)
             \/ UNCHANGED signals
                /\ C30_NewestFirst(engineSignals, engineSignals', 50)]_vars

\* both lists were one short of their bound and have taken two signals each:
\* they are full and each has dropped its oldest signal
C30_Witness ==
    /\ emitted = 4
    /\ Len(signals) = 100
    /\ signals[3] = OlderSignal(1) /\ signals[100] = OlderSignal(98)
    /\ Len(engineSignals) = 50
    /\ engineSignals[3] = OlderEngineSignal(1) /\ engineSignals[50] = OlderEngineSignal(48)

\* C28: after any sequence of start and stop calls at most one timer chain
\* of generatePeriodicSignals is pending; a stop and a start before the
\* pending timer fires do not leave two.
C28_OneTimerChain == timers <= 1

(***************************************************************************)
(* Claims on what is emitted.                                              *)
(***************************************************************************)
\* C5: every emitted signal has a confidence within [0.30, 0.95]: each
\* signal of the in-memory list and of the store (real-time and pre-news),
\* the signal the analyzer returns after the learning adjustment, and the
\* trade it records for that signal.
C5_ConfidenceInRange ==
    /\ \A i \in 1..Len(signals) :
          signals[i].confidence >= 300000 /\ signals[i].confidence <= 950000
    /\ \A i \in 1..Len(store) :
          store[i].confidence >= 300000 /\ store[i].confidence <= 950000
    /\ lastAnalysis.returned =>
          /\ lastAnalysis.adjustedConfidence >= 300000
          /\ lastAnalysis.adjustedConfidence <= 950000
    /\ \A i \in 1..Len(tradeHistory) :
          tradeHistory[i].outcome = "PENDING" =>
             /\ tradeHistory[i].confidence >= 300000
             /\ tradeHistory[i].confidence <= 950000

\* C5 witness: a pre-news signal whose stored level plus 0.15 exceeds the
\* cap has been saved and listed at 0.95, and the analyzer has returned and
\* recorded a signal whose confidence the learning engine lowered.
C5_Witness ==
    /\ \E i \in 1..Len(signals) :
          /\ signals[i].source = "Pre-News AI Analysis"
          /\ brainData[signals[i].symbol] + 150000 > 950000
          /\ signals[i].confidence = 950000
          /\ store[i] = signals[i]
    /\ lastAnalysis.returned
    /\ lastAnalysis.adjustedConfidence < lastAnalysis.confidence
    /\ \E i \in 1..Len(tradeHistory) :
          /\ tradeHistory[i].outcome = "PENDING"
          /\ tradeHistory[i].confidence = lastAnalysis.adjustedConfidence

\* C6: no signal with direction HOLD is in an in-memory signal list, in the
\* store or recorded as a trade, and the analyzer returns no signal when
\* its decision is HOLD.
C6_NoHoldEmitted ==
    /\ \A i \in 1..Len(engineSignals) : engineSignals[i].signal # "HOLD"
    /\ \A i \in 1..Len(signals) : signals[i].signal # "HOLD"
    /\ \A i \in 1..Len(store) : store[i].signal # "HOLD"
    /\ \A i \in 1..Len(tradeHistory) : tradeHistory[i].signalType # "HOLD"
    /\ lastAnalysis.signal = "HOLD" => ~lastAnalysis.returned

\* C6, for the analyzer and AutonomousTradingEngine alone
C6_NoHoldFromAnalyzers ==
    /\ \A i \in 1..Len(signals) : signals[i].signal # "HOLD"
    /\ \A i \in 1..Len(store) : store[i].signal # "HOLD"
    /\ \A i \in 1..Len(tradeHistory) : tradeHistory[i].signalType # "HOLD"
    /\ lastAnalysis.ran /\ lastAnalysis.signal = "HOLD" =>
          ~lastAnalysis.returned /\ ~lastAnalysis.recorded

\* C7: when applying learning sets the avoid flag, the analyzer returns no
\* signal for that evaluation and records no trade.
C7_AvoidSuppresses ==
    (lastAnalysis.ran /\ lastAnalysis.shouldAvoid) =>
        (~lastAnalysis.returned /\ ~lastAnalysis.recorded)

(***************************************************************************)
(* SupabaseBrainService.saveSignal and getRecentSignals (supabaseClient),  *)
(* and the two conversions of the trading engine between a signal and its  *)
(* row.  `store` is the remote table trading_signals, newest row first,    *)
(* and `localSignals` the localStorage key of the same name.               *)
(***************************************************************************)
MaxRows == 2        \* saveSignal calls in one behaviour of the store

\* list.slice(0, n)
slice(list, n) == IF Len(list) > n THEN SubSeq(list, 1, n) ELSE list

\* saveAndAddSignal: the row it builds from a signal; created_at is the
\* time of the call
toDBSignal(signal, now) ==
    [symbol |-> signal.symbol, signal_type |-> signal.signal,
     confidence |-> signal.confidence, trend |-> signal.trend,
     source |-> signal.source, created_at |-> now]

convertDBSignalToTradingSignal(dbSignal) ==
    [symbol |-> dbSignal.symbol, signal |-> dbSignal.signal_type,
     confidence |-> dbSignal.confidence, trend |-> dbSignal.trend,
     source |-> dbSignal.source]

\* How a call of the store can go: the remote insert or select succeeds,
\* the remote answers with an error or is not reached, or localStorage
\* itself throws when it is written.
SaveOutcomes == {"ok", "remoteError", "storageError"}
ReadOutcomes == {"ok", "remoteError"}

\* the outcomes a deployment can see: without a client nothing remote fails
CanHappen(configured, outcome) == configured \/ outcome # "remoteError"

\* the localStorage branch of saveSignal
saveLocal(local, row) == slice(<<row>> \o local, 100)

\* saveSignal: the two stores after the call and whether the call rejected
saveSignal(remote, local, configured, row, outcome) ==
    IF outcome = "storageError"
    THEN [remote |-> remote, local |-> local, rejected |-> TRUE]
    ELSE IF configured /\ outcome = "ok"
    THEN [remote |-> <<row>> \o remote, local |-> local, rejected |-> FALSE]
    ELSE [remote |-> remote, local |-> saveLocal(local, row), rejected |-> FALSE]

\* getRecentSignals(limit)
getRecentSignals(remote, local, configured, outcome, limit) ==
    IF configured /\ outcome = "ok" THEN slice(remote, limit) ELSE slice(local, limit)

\* the time of a call, counted in saveSignal calls that stored a row
Now == Len(store) + Len(localSignals) + 1

\* the signals the store is handed
StoredSignals ==
    {analyzeSymbol(symbol, content) : symbol \in Symbols, content \in RealTimeContent}
       \ {NoSignal}

StoreInit ==
    /\ supabaseConfigured \in BOOLEAN
    /\ localSignals = <<>>
    /\ store = <<>>
    /\ lastSaved = NoRow
    /\ readBack = [done |-> FALSE, rows |-> <<>>]

SaveSignal(signal, outcome) ==
    /\ CanHappen(supabaseConfigured, outcome)
    /\ Now <= MaxRows
    /\ \E row \in {toDBSignal(signal, Now)} :
       \E saved \in {saveSignal(store, localSignals, supabaseConfigured, row, outcome)} :
          /\ store' = saved.remote
          /\ localSignals' = saved.local
          /\ lastSaved' = IF saved.rejected THEN lastSaved ELSE row
          /\ readBack' = IF saved.rejected THEN readBack
                         ELSE [done |-> FALSE, rows |-> <<>>]
    /\ UNCHANGED <<supabaseConfigured, signals, brainData, lastAnalysis, learningRules,
                   linkedEngine, learnVars, ladderVars, decideVars, engineVars,
                   monitorVars, applyVars,
                   pendingVars>>

GetRecentSignals(outcome) ==
    /\ CanHappen(supabaseConfigured, outcome)
    /\ readBack' = [done |-> TRUE,
                    rows |-> getRecentSignals(store, localSignals, supabaseConfigured,
                                              outcome, 50)]
    /\ UNCHANGED <<supabaseConfigured, localSignals, lastSaved, emitVars, learnVars,
                   ladderVars, decideVars, engineVars, monitorVars, applyVars,
                   pendingVars>>

StoreNext ==
    \/ \E signal \in StoredSignals, outcome \in SaveOutcomes : SaveSignal(signal, outcome)
    \/ \E outcome \in ReadOutcomes : GetRecentSignals(outcome)

InitStore ==
    /\ StoreInit
    /\ signals = <<>>
    /\ brainData = [s \in Symbols |-> NoBrain]
    /\ lastAnalysis = NoAnalysis
    /\ learningRules = {}
    /\ linkedEngine = "none"
    /\ LearnIdle
    /\ LadderIdle
    /\ DecideIdle
    /\ EngineIdle
    /\ MonitorIdle
    /\ ApplyIdle
    /\ PendingIdle

SpecStore == InitStore /\ [][StoreNext]_vars

\* C18: a row saved with saveSignal is among the rows the following
\* getRecentSignals returns, with the field values it was saved with,
\* whether or not the remote store answered the save and the read.
C18_RoundTrip ==
    (readBack.done /\ lastSaved # NoRow)
        => \E i \in 1..Len(readBack.rows) : readBack.rows[i] = lastSaved

(***************************************************************************)
(* AutonomousTradingEngine (services/autonomousTradingEngine.ts): the      *)
(* asynchronous initialisation, the monitoring interval and the cycles it  *)
(* starts.  A step runs one handler from one suspension point to the next; *)
(* the suspension points are the awaits on the store, on the evidence      *)
(* fetches of analyzeSymbol and on the two-second delay.                   *)
(***************************************************************************)
MaxCycles == 2      \* performMonitoringCycle invocations in one behaviour

\* generateRealTimeSignals: const symbols = ['XAUUSD', 'EURUSD'], as the
\* reversed list
ReversedSymbols == <<"EURUSD", "XAUUSD">>

MonitoredSymbols == <<"XAUUSD", "EURUSD">>

\* the currencies of the HIGH impact events loadUpcomingNews creates, and
\* "none" for a cycle that finds no such event within five minutes
ImminentNews == {"none", "USD", "EUR"}

getAffectedSymbols(currency) ==
    IF currency = "USD" THEN <<"XAUUSD", "EURUSD">>
    ELSE IF currency = "EUR" THEN <<"EURUSD">>
    ELSE <<"XAUUSD">>

\* loadRecentSignals: map is handed convertDBSignalToTradingSignal without
\* its `this`, so the conversion of the first row throws at
\* this.calculateRiskReward and the catch leaves the list as it was
loadRecentSignals(rows, current) == IF rows = <<>> THEN <<>> ELSE current

\* the catch of generateRealTimeSignals, as one that ends the loop
AbortCycle(c) == [c EXCEPT !.pc = "done", !.finished = @ + 1]

\* generateRealTimeSignals: the loop begins its first symbol
BeginRealTime(c) ==
    [c EXCEPT !.phase = "realTime", !.i = 1, !.pc = "analyze",
              !.evaluated = <<MonitoredSymbols[1]>>]

\* generateRealTimeSignals: an iteration has ended; the loop begins the next
\* symbol or the cycle ends
NextSymbol(c) ==
    IF c.i < Len(MonitoredSymbols)
    THEN [c EXCEPT !.i = @ + 1, !.pc = "analyze", !.finished = @ + 1,
                   !.evaluated = Append(@, MonitoredSymbols[c.i + 1])]
    ELSE [c EXCEPT !.pc = "done", !.finished = @ + 1]

\* generatePreNewsSignals: the loop goes to its next affected symbol, or
\* checkUpcomingNews returns and generateRealTimeSignals begins
NextAffected(c) ==
    IF c.i < Len(c.affected)
    THEN [c EXCEPT !.i = @ + 1, !.pc = "preNews"]
    ELSE BeginRealTime(c)

\* performMonitoringCycle up to its first suspension
NewCycle(news, afterStop) ==
    LET c == [phase |-> "preNews", pc |-> "preNews", i |-> 1,
              affected |-> IF news = "none" THEN <<>> ELSE getAffectedSymbols(news),
              signal |-> NoSignal, created_at |-> 0,
              attempts |-> 0, evaluated |-> <<>>, finished |-> 0,
              failedEval |-> {}, stopDuring |-> 0, afterStop |-> afterStop]
    IN IF news = "none" THEN BeginRealTime(c) ELSE c

\* startContinuousMonitoring
startContinuousMonitoring(interval, list, afterStop) ==
    IF interval THEN [interval |-> interval, cycles |-> list]
    ELSE [interval |-> TRUE, cycles |-> Append(list, NewCycle("none", afterStop))]

\* the pages one cycle extracts: a cheat sheet that reads STRONG_BUY, or
\* nothing
MonitorContent ==
    {c \in RealTimeContent :
        /\ ~c.news.present
        /\ c.cheatSheet.present => c.cheatSheet.recommendation = "STRONG_BUY"}

\* the symbol a cycle is working on
CycleSymbol(c) ==
    IF c.phase = "preNews" THEN c.affected[c.i] ELSE MonitoredSymbols[c.i]

\* the model lets an evaluation end with a signal while fewer than
\* MaxSignals signals are on the list or being saved
RoomForSignal ==
    Len(signals) + Cardinality({k \in DOMAIN cycles : cycles[k].pc = "save"})
       < MaxSignals

\* the saveSignal call of this step did not store the row where the
\* deployment keeps its rows: the remote table, or localStorage without a
\* client
SaveFailed ==
    IF supabaseConfigured THEN store' = store ELSE localSignals' = localSignals

\* the cycle waits for the evidence of a symbol
Evaluating(c, symbol) == c.pc = "analyze" /\ CycleSymbol(c) = symbol

\* what no step of the trading engine changes
monitorFrame ==
    <<lastAnalysis, learningRules, linkedEngine, supabaseConfigured, lastSaved,
      readBack, learnVars, ladderVars, decideVars, engineVars, applyVars,
      pendingVars>>

\* getInstance has constructed the engine and called
\* initializeAutonomousMonitoring, which waits for loadBrainData
MonitorInit ==
    /\ initPc = "loadBrainData"
    /\ isMonitoring = TRUE
    /\ monitoringInterval = FALSE
    /\ cycles = <<>>
    /\ stopRequested = FALSE
    /\ supabaseConfigured \in BOOLEAN
    /\ localSignals = <<>>
    /\ lastSaved = NoRow
    /\ readBack = [done |-> FALSE, rows |-> <<>>]

\* initializeAutonomousMonitoring: loadBrainData has returned
LoadBrainDataReturn(table) ==
    /\ initPc = "loadBrainData"
    /\ initPc' = "loadRecentSignals"
    /\ brainData' = table
    /\ UNCHANGED <<isMonitoring, monitoringInterval, cycles, stopRequested, signals,
                   store, localSignals, monitorFrame>>

\* initializeAutonomousMonitoring: loadRecentSignals has returned
LoadRecentSignalsReturn(outcome) ==
    /\ initPc = "loadRecentSignals"
    /\ CanHappen(supabaseConfigured, outcome)
    /\ initPc' = "loadUpcomingNews"
    /\ signals' = loadRecentSignals(getRecentSignals(store, localSignals,
                                        supabaseConfigured, outcome, 50), signals)
    /\ UNCHANGED <<isMonitoring, monitoringInterval, cycles, stopRequested, brainData,
                   store, localSignals, monitorFrame>>

\* initializeAutonomousMonitoring: loadUpcomingNews has returned and
\* startContinuousMonitoring is called
LoadUpcomingNewsReturn ==
    /\ initPc = "loadUpcomingNews"
    /\ initPc' = "done"
    /\ \E started \in {startContinuousMonitoring(monitoringInterval, cycles,
                                                 stopRequested)} :
          /\ monitoringInterval' = started.interval
          /\ cycles' = started.cycles
    /\ UNCHANGED <<isMonitoring, stopRequested, brainData, signals, store,
                   localSignals, monitorFrame>>

\* the interval of startContinuousMonitoring fires
TimerFires_monitoring(news) ==
    /\ monitoringInterval
    /\ Len(cycles) < MaxCycles
    /\ cycles' = Append(cycles, NewCycle(news, stopRequested))
    /\ UNCHANGED <<initPc, isMonitoring, monitoringInterval, stopRequested, brainData,
                   signals, store, localSignals, monitorFrame>>

\* generatePreNewsSignals: getEnhancedMarketData has returned for the
\* affected symbol; the signal is created and saveAndAddSignal calls
\* saveSignal, or there is no signal and the loop goes on
PreNewsReturn(k, marketData) ==
    /\ k \in DOMAIN cycles
    /\ cycles[k].pc = "preNews"
    /\ LET c == cycles[k]
           symbol == CycleSymbol(c)
           signal == IF brainData[symbol] = NoBrain THEN NoSignal
                     ELSE createPreNewsSignal(symbol, getEnhancedMarketData(marketData),
                                              brainData[symbol])
       IN /\ signal = NoSignal \/ RoomForSignal
          /\ cycles' = [cycles EXCEPT ![k] =
                           IF signal = NoSignal THEN NextAffected(c)
                           ELSE [c EXCEPT !.pc = "save", !.signal = signal,
                                          !.created_at = Now, !.attempts = 1]]
    /\ UNCHANGED <<initPc, isMonitoring, monitoringInterval, stopRequested, brainData,
                   signals, store, localSignals, monitorFrame>>

\* generateRealTimeSignals: analyzeSymbol has returned; `failed` says that
\* gathering or analysing the evidence threw, which analyzeSymbol catches
\* and answers with null
AnalyzeReturn(k, content, failed) ==
    /\ k \in DOMAIN cycles
    /\ cycles[k].pc = "analyze"
    /\ LET c == cycles[k]
           symbol == CycleSymbol(c)
           signal == IF failed THEN NoSignal ELSE analyzeSymbol(symbol, content)
       IN /\ signal = NoSignal \/ RoomForSignal
          /\ cycles' = [cycles EXCEPT ![k] =
                           IF signal = NoSignal
                           THEN [c EXCEPT !.pc = "delay",
                                          !.failedEval = IF failed THEN @ \cup {symbol}
                                                         ELSE @]
                           ELSE [c EXCEPT !.pc = "save", !.signal = signal,
                                          !.created_at = Now, !.attempts = 1]]
    /\ UNCHANGED <<initPc, isMonitoring, monitoringInterval, stopRequested, brainData,
                   signals, store, localSignals, monitorFrame>>

\* saveAndAddSignal: saveSignal has settled
SaveReturn(k, outcome) ==
    /\ k \in DOMAIN cycles
    /\ cycles[k].pc = "save"
    /\ CanHappen(supabaseConfigured, outcome)
    /\ LET c == [cycles[k] EXCEPT !.signal = NoSignal]
           signal == cycles[k].signal
           saved == saveSignal(store, localSignals, supabaseConfigured,
                               toDBSignal(signal, cycles[k].created_at), outcome)
       IN /\ store' = saved.remote
          /\ localSignals' = saved.local
          /\ signals' = IF saved.rejected THEN signals
                        ELSE saveAndAddSignal(signals, signal)
          /\ cycles' = [cycles EXCEPT ![k] =
                           IF c.phase = "preNews"
                           THEN IF saved.rejected THEN [c EXCEPT !.pc = "rejected"]
                                ELSE NextAffected(c)
                           ELSE IF saved.rejected THEN NextSymbol(c)
                                ELSE [c EXCEPT !.pc = "delay"]]
    /\ UNCHANGED <<initPc, isMonitoring, monitoringInterval, stopRequested, brainData,
                   monitorFrame>>

\* generateRealTimeSignals: the two-second delay has passed
DelayReturn(k) ==
    /\ k \in DOMAIN cycles
    /\ cycles[k].pc = "delay"
    /\ cycles' = [cycles EXCEPT ![k] = NextSymbol(cycles[k])]
    /\ UNCHANGED <<initPc, isMonitoring, monitoringInterval, stopRequested, brainData,
                   signals, store, localSignals, monitorFrame>>

\* stopMonitoring
StopMonitoring ==
    /\ ~stopRequested
    /\ monitoringInterval' = FALSE
    /\ isMonitoring' = FALSE
    /\ stopRequested' = TRUE
    /\ cycles' = [k \in DOMAIN cycles |->
                     IF cycles[k].phase = "realTime" /\ cycles[k].pc \in {"analyze", "save"}
                     THEN [cycles[k] EXCEPT !.stopDuring = cycles[k].i]
                     ELSE cycles[k]]
    /\ UNCHANGED <<initPc, brainData, signals, store, localSignals, monitorFrame>>

MonitorNext ==
    \/ \E table \in BrainTables : LoadBrainDataReturn(table)
    \/ \E outcome \in ReadOutcomes : LoadRecentSignalsReturn(outcome)
    \/ LoadUpcomingNewsReturn
    \/ \E news \in ImminentNews : TimerFires_monitoring(news)
    \/ \E k \in 1..MaxCycles, marketData \in PreNewsEvidence : PreNewsReturn(k, marketData)
    \/ \E k \in 1..MaxCycles, content \in MonitorContent, failed \in BOOLEAN :
          AnalyzeReturn(k, content, failed)
    \/ \E k \in 1..MaxCycles, outcome \in SaveOutcomes : SaveReturn(k, outcome)
    \/ \E k \in 1..MaxCycles : DelayReturn(k)
    \/ StopMonitoring

InitMonitor ==
    /\ MonitorInit
    /\ EmitIdle
    /\ LearnIdle
    /\ LadderIdle
    /\ DecideIdle
    /\ EngineIdle
    /\ ApplyIdle
    /\ PendingIdle

SpecMonitor == InitMonitor /\ [][MonitorNext]_vars

IsPrefix(short, long) ==
    /\ Len(short) <= Len(long)
    /\ \A n \in 1..Len(short) : short[n] = long[n]

\* C11: no two monitoring cycles wait at the same time for the evidence of
\* the same symbol, also when the interval fires before the previous cycle
\* has ended.
C11_OneInFlightPerSymbol ==
    \A k1, k2 \in DOMAIN cycles : \A symbol \in Symbols :
       (Evaluating(cycles[k1], symbol) /\ Evaluating(cycles[k2], symbol)) => k1 = k2

\* C12: in every cycle generateRealTimeSignals begins the symbols in the
\* order XAUUSD, EURUSD, and begins a symbol only when the iterations of
\* all symbols before it (evaluation, save and delay) have ended; a signal
\* is being saved only for the symbol of the running iteration.
C12_FixedOrderOneByOne ==
    \A k \in DOMAIN cycles :
       LET c == cycles[k] IN
       /\ IsPrefix(c.evaluated, <<"XAUUSD", "EURUSD">>)
       /\ c.finished <= Len(c.evaluated)
       /\ Len(c.evaluated) <= c.finished + 1
       /\ (c.phase = "realTime" /\ c.pc \in {"analyze", "save", "delay"})
             => (c.finished = Len(c.evaluated) - 1 /\ c.i = Len(c.evaluated))
       /\ (c.phase = "realTime" /\ c.pc = "save") => c.signal.symbol = c.evaluated[c.i]

\* a cycle has taken both symbols in turn, and the signal of each is stored
C12_Witness ==
    \E k \in DOMAIN cycles :
       /\ cycles[k].pc = "done"
       /\ cycles[k].evaluated = <<"XAUUSD", "EURUSD">>
       /\ cycles[k].finished = 2
       /\ Len(signals) >= 2
       /\ signals[1].symbol = "EURUSD"
       /\ signals[2].symbol = "XAUUSD"
       /\ Len(cycles) = 1

\* C13: a cycle that was evaluating a symbol when stopMonitoring was called
\* begins no further symbol.
C13_StopsAfterCurrentSymbol ==
    \A k \in DOMAIN cycles :
       cycles[k].stopDuring # 0 => Len(cycles[k].evaluated) = cycles[k].stopDuring

\* C14: no monitoring cycle begins after stopMonitoring has been called.
C14_NoCycleAfterStop ==
    \A k \in DOMAIN cycles : ~cycles[k].afterStop

\* C16: when the save of a signal fails (the remote insert fails, or
\* localStorage throws), the signal is put on the signal list by that one
\* saveSignal call and the cycle goes on.
C16_FailedSaveKeepsSignal ==
    [][\A k \in DOMAIN cycles :
          (cycles[k].pc = "save" /\ cycles'[k].pc # "save" /\ SaveFailed)
             => /\ cycles[k].attempts = 1
                /\ signals' = saveAndAddSignal(signals, cycles[k].signal)
                /\ cycles'[k].pc # "rejected"]_vars

\* C17: an evaluation whose evidence fails leaves the signal list and the
\* interval as they are and is followed by the delay of the loop, and a
\* cycle with a failed evaluation has begun every symbol when it ends.
C17_EvidenceFailureIsLocal ==
    /\ [](\A k \in DOMAIN cycles :
             (cycles[k].pc = "done" /\ cycles[k].failedEval # {})
                => cycles[k].evaluated = <<"XAUUSD", "EURUSD">>)
    /\ [][\A k \in DOMAIN cycles :
             (cycles[k].pc = "analyze" /\ cycles'[k].failedEval # cycles[k].failedEval)
                => /\ signals' = signals
                   /\ monitoringInterval' = monitoringInterval
                   /\ cycles'[k].pc = "delay"]_vars

\* the evidence of XAUUSD failed in the first cycle, which went on to
\* EURUSD and ended with nothing on the list, and the interval has started
\* a second cycle
C17_Witness ==
    /\ Len(cycles) = 2
    /\ cycles[1].pc = "done"
    /\ cycles[1].failedEval = {"XAUUSD"}
    /\ cycles[1].evaluated = <<"XAUUSD", "EURUSD">>
    /\ cycles[2].evaluated # <<>>
    /\ signals = <<>>
    /\ monitoringInterval

(***************************************************************************)
(* The ladder calculators applied to drawn arguments.                      *)
(***************************************************************************)
\* The evidence the analyzer's calculator is run under: the session's
\* bullish gold evidence; the same with one medium impact event in the news
\* and a chart of MEDIUM volatility; the same with a high impact event.
VolatileGold ==
    [BullishGold EXCEPT
        !.newsAnalysis = [present |-> TRUE, highImpactEvents |-> <<>>,
                          mediumImpactEvents |-> 1, marketImpact |-> "POSITIVE"],
        !.interactiveChart = [present |-> TRUE, tradingSignal |-> "BUY",
                              trend |-> "BULLISH", momentum |-> "STRONG",
                              volatility |-> "MEDIUM"]]
EventfulGold ==
    [BullishGold EXCEPT
        !.newsAnalysis = [present |-> TRUE, highImpactEvents |-> <<PlainEventUSD>>,
                          mediumImpactEvents |-> 0, marketImpact |-> "POSITIVE"]]
LadderEvidence ==
    {BullishGold, VolatileGold, EventfulGold,
     [BullishGold EXCEPT !.symbol = "EURUSD"], [VolatileGold EXCEPT !.symbol = "EURUSD"]}

LadderInit ==
    /\ ladderIn \in LadderInputs
    /\ ladderOut = NoLadder

CreateEnhancedTradingSignal ==
    /\ ladderOut = NoLadder
    /\ ladderOut' = createEnhancedTradingSignal(ladderIn.signal, ladderIn.currentPrice,
                        ladderIn.currentPrice + ladderIn.supportOffset,
                        ladderIn.currentPrice + ladderIn.resistanceOffset)
    /\ UNCHANGED <<ladderIn, notLadder>>

CalculatePreciseRiskLevels ==
    /\ ladderOut = NoLadder
    /\ ladderOut' = calculatePreciseRiskLevels(ladderIn.signal, ladderIn.currentPrice,
                        ladderIn.currentPrice + ladderIn.supportOffset,
                        ladderIn.currentPrice + ladderIn.resistanceOffset)
    /\ UNCHANGED <<ladderIn, notLadder>>

CreatePreNewsLadder ==
    /\ ladderOut = NoLadder
    /\ ladderOut' = PreNewsLadder(ladderIn.signal, ladderIn.currentPrice,
                        ladderIn.currentPrice + ladderIn.supportOffset,
                        ladderIn.currentPrice + ladderIn.resistanceOffset)
    /\ UNCHANGED <<ladderIn, notLadder>>

CreateTradingSignal ==
    /\ ladderOut = NoLadder
    /\ ladderOut' = createTradingSignal(ladderIn.signal, ladderIn.currentPrice,
                        ladderIn.currentPrice + ladderIn.supportOffset,
                        ladderIn.currentPrice + ladderIn.resistanceOffset)
    /\ UNCHANGED <<ladderIn, notLadder>>

GenerateTradingSignalFromData ==
    /\ ladderOut = NoLadder
    /\ ladderOut' = generateTradingSignalFromData(ladderIn.signal, ladderIn.currentPrice,
                        ladderIn.currentPrice + ladderIn.supportOffset,
                        ladderIn.currentPrice + ladderIn.resistanceOffset)
    /\ UNCHANGED <<ladderIn, notLadder>>

\* EnhancedAIAnalyzer.calculatePreciseRiskLevels, at the price the analyzer
\* falls back to and under the market conditions it assessed
CalculatePreciseRiskLevels_enhanced(data) ==
    /\ ladderOut = NoLadder
    /\ ladderOut' = calculatePreciseRiskLevels_enhanced(ladderIn.signal,
                        FallbackPrice(data.symbol), assessMarketConditions(data))
    /\ UNCHANGED <<ladderIn, notLadder>>

LadderNext ==
    \/ CreateEnhancedTradingSignal
    \/ CalculatePreciseRiskLevels
    \/ CreatePreNewsLadder
    \/ CreateTradingSignal
    \/ GenerateTradingSignalFromData
    \/ \E data \in LadderEvidence : CalculatePreciseRiskLevels_enhanced(data)

InitLadder == LadderInit /\ LearnIdle /\ DecideIdle /\ EmitIdle /\ EngineIdle /\ LaterIdle

SpecLadder == InitLadder /\ [][LadderNext]_vars

\* C4: every ladder a calculator returns is strictly ordered, for BUY
\* stopLoss < entryPrice < takeProfit1 < takeProfit2 < takeProfit3 and for
\* SELL the reverse, for every entry price and every support / resistance,
\* also a support at or above the entry and a resistance at or below it.
C4_LadderOrdered ==
    ladderOut # NoLadder =>
        IF ladderOut.signal = "BUY"
        THEN /\ ladderOut.stopLoss < ladderOut.entryPrice
             /\ ladderOut.entryPrice < ladderOut.takeProfit1
             /\ ladderOut.takeProfit1 < ladderOut.takeProfit2
             /\ ladderOut.takeProfit2 < ladderOut.takeProfit3
        ELSE /\ ladderOut.stopLoss > ladderOut.entryPrice
             /\ ladderOut.entryPrice > ladderOut.takeProfit1
             /\ ladderOut.takeProfit1 > ladderOut.takeProfit2
             /\ ladderOut.takeProfit2 > ladderOut.takeProfit3

\* the basis points of the entry price a calculator takes as its risk
RiskBasisPoints(calc) ==
    IF calc = "calculatePreciseRiskLevels_enhanced" THEN 100
    ELSE IF calc = "createPreNewsSignal" THEN 150
    ELSE 200

\* reward / risk >= 1.5 as JavaScript computes it: 0 / 0 is NaN and compares
\* false, a positive reward over no risk is Infinity
RewardToRiskHolds(ladder) ==
    LET reward == Abs(ladder.takeProfit1 - ladder.entryPrice)
        risk == Abs(ladder.entryPrice - ladder.stopLoss)
    IN IF risk = 0 THEN reward > 0 ELSE 2 * reward >= 3 * risk

\* C19: in every ladder the distance from the entry to takeProfit1 is at
\* least 1.5 times the distance from the entry to the stop.
C19_RewardToRisk ==
    ladderOut # NoLadder => RewardToRiskHolds(ladderOut)

\* C20: in every ladder the stop lies no further from the entry than the
\* risk percentage of the calculator times the entry price (one unit of the
\* ladder is allowed for the rounding of the two levels).
C20_StopWithinRisk ==
    ladderOut # NoLadder =>
        Abs(ladderOut.entryPrice - ladderOut.stopLoss) * 10000
            <= ladderOut.entryPrice * RiskBasisPoints(ladderOut.calc) + 10000

====
